---- MODULE Spec2Model ----
(***************************************************************************)
(* A model of Specify.AI.                                                  *)
(*                                                                         *)
(* specify/core/key_manager.py: KeyManager (store_key, get_key, list_keys, *)
(* delete_key, key_exists) on top of CryptoManager (Fernet encryption      *)
(* under a key derived from the machine identifier and a persisted salt),  *)
(* the keys.json file with its encrypted and legacy plain-text formats,    *)
(* and the environment fallback.                                           *)
(*                                                                         *)
(* specify/providers/base.py: ProviderConfig and its from_env constructor, *)
(* ProviderFactory (register, unregister, create) and the process-wide     *)
(* get_default_factory.                                                    *)
(*                                                                         *)
(* specify/providers/ollama.py: OllamaProvider (generate, stream,          *)
(* _build_messages, _handle_error).                                        *)
(*                                                                         *)
(* Strings are sequences of one-character strings, so that lower(),        *)
(* strip(), len(), slices and substring tests are computed, not assumed.   *)
(* Each component has its own specification over its own variables; the    *)
(* variables of the other components hold nothing in it.                   *)
(*                                                                         *)
(*   Spec           KeyManager calls, one call a step                      *)
(*   CryptoSpec     CryptoManager.encrypt and decrypt, one call a step     *)
(*   FactorySpec    ProviderFactory and get_default_factory                *)
(*   ConstructSpec  ProviderConfig construction                            *)
(*   ConfigSpec     ProviderConfig.from_env and attribute assignment       *)
(*   OllamaSpec     OllamaProvider.generate and stream, one call a step    *)
(*   StreamSpec     OllamaProvider.stream, one __anext__ a step            *)
(*   DirectorySpec  KeyManager.__init__ and SPECIFY_CONFIG_DIR             *)
(*   MachineIdSpec  CryptoManager._get_machine_id                          *)
(*   RaceSpec       store_key of several processes, load and save apart    *)
(*   FirstUseSpec   the first encrypt of several callers, read by read     *)
(*   FaultSpec      store_key and delete_key where encryption can fail     *)
(***************************************************************************)
EXTENDS Integers, Sequences, FiniteSets, TLC

VARIABLES
    dirExists,   \* the configuration directory exists
    saltFile,    \* <config_dir>/.salt : [exists, len, bytes]
    keysFile,    \* <config_dir>/keys.json : [kind, encrypted, version, entries]
    environ,     \* os.environ restricted to the mapped variables
    machineId,   \* what _get_machine_id resolves to on this host
    fernet,      \* fernet[m] : CryptoManager._fernet of KeyManager m (its key)
    saltSeq,     \* number of salts drawn so far (secrets.token_bytes is fresh)
    last         \* the last KeyManager call: its arguments and its outcome

VARIABLES
    issued,      \* the tokens CryptoManager.encrypt has returned, with their plaintext
    cmLast       \* the last direct CryptoManager call

VARIABLES
    default_factory,  \* base.py's global _default_factory (0 is None)
    factory_lock,     \* the thread holding _factory_lock (0: free)
    pc,               \* pc[t] : where thread t stands in get_default_factory
    ref,              \* ref[t] : the factory get_default_factory returned to t
    registries,       \* registries[f] : _registry of the ProviderFactory f
    flast             \* the last ProviderFactory call

VARIABLES
    configs,     \* configs[c] : the fields of the ProviderConfig object c
    adapter,     \* the ProviderConfig object the OllamaProvider holds (0: none)
    clast,       \* the last ProviderConfig call
    olast,       \* the last OllamaProvider call
    sent,        \* the requests the OllamaProvider's client has received
    gen          \* the async generators the calls of stream have returned

VARIABLES
    specify_config_dir,  \* os.environ.get("SPECIFY_CONFIG_DIR")
    cwd,                 \* the working directory of the process
    config_dir,          \* config_dir[m] : KeyManager m's config_dir
    ilast                \* the last construction of a KeyManager

VARIABLES
    host,        \* the platform and its sources of a machine identifier
    mlast        \* the last call of CryptoManager._get_machine_id

VARIABLES
    tx,          \* tx[m] : the store_key call in progress in process m
    th           \* th[c] : caller c's position in its first encrypt

kmvars == <<dirExists, saltFile, keysFile, environ, machineId, fernet, saltSeq, last>>
cmvars == <<issued, cmLast>>
fvars  == <<default_factory, factory_lock, pc, ref, registries, flast>>
cvars  == <<configs, adapter, clast>>
ovars  == <<olast, sent, gen>>
ivars  == <<specify_config_dir, cwd, config_dir, ilast>>
mvars  == <<host, mlast>>
rvars  == <<tx>>
uvars  == <<th>>

vars == <<kmvars, cmvars, fvars, cvars, ovars, ivars, mvars, rvars, uvars>>

\* --------------------------------------------------------------- bounds
\* KeyManager instances opened on the same configuration directory.
NumManagers == 2

Managers == 1..NumManagers

\* Threads of the process that use the default ProviderFactory.
NumThreads == 2

Threads == 1..NumThreads

\* ProviderConfig objects the program holds at a time.
MaxConfigs == 1

Slots == 1..MaxConfigs

\* --------------------------------------------------------------- strings
Whitespace == {" ", "\t", "\n"}

UpperCase == <<"A", "B", "C", "D", "E", "F", "G", "H", "I", "J", "K", "L", "M",
               "N", "O", "P", "Q", "R", "S", "T", "U", "V", "W", "X", "Y", "Z">>
LowerCase == <<"a", "b", "c", "d", "e", "f", "g", "h", "i", "j", "k", "l", "m",
               "n", "o", "p", "q", "r", "s", "t", "u", "v", "w", "x", "y", "z">>

\* the lower-case letter of every upper-case letter
ToLower ==
    [c \in {UpperCase[i] : i \in 1..Len(UpperCase)} |->
        LowerCase[CHOOSE i \in 1..Len(UpperCase) : UpperCase[i] = c]]

\* str.lower() on one character
LowerChar(c) == IF c \in DOMAIN ToLower THEN ToLower[c] ELSE c

\* str.lower()
lower(s) == [i \in 1..Len(s) |-> LowerChar(s[i])]

RECURSIVE lstrip(_)
lstrip(s) == IF s # <<>> /\ Head(s) \in Whitespace THEN lstrip(Tail(s)) ELSE s

RECURSIVE rstrip(_)
rstrip(s) ==
    IF s # <<>> /\ s[Len(s)] \in Whitespace
    THEN rstrip(SubSeq(s, 1, Len(s) - 1))
    ELSE s

\* str.strip()
strip(s) == rstrip(lstrip(s))

\* --------------------------------------------------------------- constants
openai    == <<"o", "p", "e", "n", "a", "i">>
anthropic == <<"a", "n", "t", "h", "r", "o", "p", "i", "c">>
ollama    == <<"o", "l", "l", "a", "m", "a">>

VALID_PROVIDERS == {ollama, openai, anthropic}

ENV_VAR_MAPPING ==
    [p \in VALID_PROVIDERS |->
        IF p = openai THEN "OPENAI_API_KEY"
        ELSE IF p = anthropic THEN "ANTHROPIC_API_KEY"
        ELSE "OLLAMA_HOST"]

EnvVars == {ENV_VAR_MAPPING[p] : p \in VALID_PROVIDERS}

\* length of a salt, in bytes
SALT_LEN == 16

\* the on-disk format version _save_keys writes
FORMAT_VERSION == 2

\* _mask_key: keys shorter than this are shown as "***"
MASK_MIN_LEN == 6

\* _mask_key: characters shown at each end
MASK_SHOWN == 3

\* --------------------------------------------------------------- CryptoManager
\* A Fernet key is determined by the salt and the machine identifier it was
\* derived from (PBKDF2 is taken to be injective). NoKey is _fernet = None.
NoKey == [salt |-> 0, mid |-> "none"]

\* CryptoManager._derive_key, given the salt and the machine identifier
derive_key(salt, mid) == [salt |-> salt, mid |-> mid]

\* The part of the world one call of a KeyManager m reads and writes.
World(m) ==
    [dir |-> dirExists, salt |-> saltFile, file |-> keysFile,
     mid |-> machineId, fernet |-> fernet[m], seq |-> saltSeq]

NoSalt == [exists |-> FALSE, len |-> 0, bytes |-> 0]

\* (a variant that draws a new salt on every call)
load_or_create_salt_regen(w) ==
    [w EXCEPT !.dir = TRUE,
              !.salt = [exists |-> TRUE, len |-> SALT_LEN, bytes |-> w.seq + 1],
              !.seq = w.seq + 1]

\* (a variant that reuses a salt file of any length)
load_or_create_salt_any_length(w) ==
    LET w1 == [w EXCEPT !.dir = TRUE]
    IN  IF w1.salt.exists
        THEN w1
        ELSE [w1 EXCEPT !.salt = [exists |-> TRUE, len |-> SALT_LEN, bytes |-> w.seq + 1],
                        !.seq = w.seq + 1]

\* CryptoManager._load_or_create_salt: the directory is created, a salt file
\* of exactly 16 bytes is reused, anything else is replaced by a fresh salt.
load_or_create_salt(w) ==
    LET w1 == [w EXCEPT !.dir = TRUE]
    IN  IF w1.salt.exists /\ w1.salt.len = SALT_LEN
        THEN w1
        ELSE [w1 EXCEPT !.salt = [exists |-> TRUE, len |-> SALT_LEN, bytes |-> w.seq + 1],
                        !.seq = w.seq + 1]

\* (a variant in which an instance draws a salt of its own instead of loading
\* the persisted one)
get_fernet_private_salt(w) ==
    IF w.fernet # NoKey
    THEN w
    ELSE [w EXCEPT !.dir = TRUE, !.fernet = derive_key(w.seq + 1, w.mid),
                   !.seq = w.seq + 1]

\* the machine identifier of a machine on which _get_machine_id raises
\* MachineIdError
NoMachineId == "none"

\* CryptoManager._get_fernet: the key is derived once and cached. _derive_key
\* loads or creates the salt and then asks for the machine identifier; where
\* that raises, no key is cached and the call raises (fernet is left NoKey).
get_fernet(w) ==
    IF w.fernet # NoKey
    THEN w
    ELSE LET w1 == load_or_create_salt(w)
         IN  IF w1.mid = NoMachineId
             THEN w1
             ELSE [w1 EXCEPT !.fernet = derive_key(w1.salt.bytes, w1.mid)]

\* a character that str.encode("utf-8") refuses (a lone surrogate)
LoneSurrogate == "?"

\* plaintext.encode("utf-8") returns
encodable(plaintext) == \A i \in DOMAIN plaintext : plaintext[i] # LoneSurrogate

\* A value of keys.json: a plain string (key = NoKey), or a token, the
\* encryption of pt under key.
PlainValue(s) == [key |-> NoKey, pt |-> s]

\* (a variant that stores the plaintext)
encrypt_plain(k, plaintext) == [key |-> NoKey, pt |-> plaintext]

\* CryptoManager.encrypt under the key k
encrypt(k, plaintext) == [key |-> k, pt |-> plaintext]

\* (a variant that does not verify the token)
decrypt_unverified(k, value) == [ok |-> TRUE, pt |-> value.pt]

\* CryptoManager.decrypt under the key k: only a token made under k verifies.
decrypt(k, value) ==
    IF value.key # NoKey /\ value.key = k
    THEN [ok |-> TRUE, pt |-> value.pt]
    ELSE [ok |-> FALSE, pt |-> <<>>]

\* CryptoManager.encrypt as a call: [w, err, token]. The IV and the timestamp
\* of a Fernet token are left out (nothing in the program reads them), and
\* so is the base64 layer, which decrypt removes before it verifies.
cm_encrypt(w, plaintext) ==
    LET w1 == get_fernet(w)
    IN  IF w1.fernet = NoKey \/ ~encodable(plaintext)
        THEN [w |-> w1, err |-> "EncryptionError", token |-> PlainValue(<<>>)]
        ELSE [w |-> w1, err |-> "none", token |-> encrypt(w1.fernet, plaintext)]

\* CryptoManager.decrypt as a call: [w, err, str]
cm_decrypt(w, ciphertext) ==
    LET w1 == get_fernet(w)
        d == decrypt(w1.fernet, ciphertext)
    IN  IF d.ok
        THEN [w |-> w1, err |-> "none", str |-> d.pt]
        ELSE [w |-> w1, err |-> "DecryptionError", str |-> <<>>]

\* --------------------------------------------------------------- keys.json
\* the empty dict
EmptyDict == [p \in {} |-> <<>>]

NoFile == [kind |-> "absent", encrypted |-> FALSE, version |-> 0, entries |-> EmptyDict]

\* a file that is not JSON
InvalidFile == [kind |-> "invalid", encrypted |-> FALSE, version |-> 0, entries |-> EmptyDict]

\* a JSON file whose top-level value is not an object
NonRecordFile == [kind |-> "nonrecord", encrypted |-> FALSE, version |-> 0, entries |-> EmptyDict]

\* the legacy format: provider -> plain string, no _version, no _encrypted
LegacyFile(keys) ==
    [kind |-> "record", encrypted |-> FALSE, version |-> 0,
     entries |-> [p \in DOMAIN keys |-> PlainValue(keys[p])]]

\* (a variant that keeps no other entry)
Put_alone(keys, p, v) == [q \in {p} |-> v]

\* keys[p] = v
Put(keys, p, v) == [q \in (DOMAIN keys) \cup {p} |-> IF q = p THEN v ELSE keys[q]]

\* (a variant that removes nothing)
Del_kept(keys, p) == keys

\* del keys[p]
Del(keys, p) == [q \in (DOMAIN keys) \ {p} |-> keys[q]]

\* (a variant that opens the file for writing before it encrypts)
save_keys_opened_first(w, keys) ==
    LET w1 == IF DOMAIN keys = {} THEN w ELSE get_fernet(w)
    IN  IF \E p \in DOMAIN keys : cm_encrypt(w1, keys[p]).err # "none"
        THEN [w |-> [w1 EXCEPT !.file = InvalidFile], err |-> "EncryptionError"]
        ELSE [w |-> [w1 EXCEPT !.file =
                        [kind |-> "record", encrypted |-> TRUE, version |-> FORMAT_VERSION,
                         entries |-> [p \in DOMAIN keys |-> encrypt(w1.fernet, keys[p])]]],
              err |-> "none"]

\* KeyManager._save_keys: [w, err]. Every value is encrypted (the first
\* encryption derives the key); an encryption that fails ends the call
\* before the file is opened; otherwise the whole file is rewritten in the
\* encrypted format.
save_keys(w, keys) ==
    LET w1 == IF DOMAIN keys = {} THEN w ELSE get_fernet(w)
    IN  IF \E p \in DOMAIN keys : cm_encrypt(w1, keys[p]).err # "none"
        THEN [w |-> w1, err |-> "EncryptionError"]
        ELSE [w |-> [w1 EXCEPT !.file =
                        [kind |-> "record", encrypted |-> TRUE, version |-> FORMAT_VERSION,
                         entries |-> [p \in DOMAIN keys |-> encrypt(w1.fernet, keys[p])]]],
              err |-> "none"]

\* (a variant that leaves the migration to the next save)
migrate_on_next_save(w, result) == [w |-> w, err |-> "none"]

\* _load_keys' migration of a legacy file: the record set is saved at once
migrate(w, result) == save_keys(w, result)

\* KeyManager._load_keys: [w, err, keys]
load_keys(w) ==
    LET f == w.file
    IN  IF f.kind = "absent" \/ f.kind = "nonrecord"
        THEN [w |-> w, err |-> "none", keys |-> EmptyDict]
        ELSE IF f.kind = "invalid"
        THEN [w |-> w, err |-> "KeyValidationError", keys |-> EmptyDict]
        ELSE IF f.encrypted
        THEN LET w1 == IF DOMAIN f.entries = {} THEN w ELSE get_fernet(w)
             IN  IF \A p \in DOMAIN f.entries : decrypt(w1.fernet, f.entries[p]).ok
                 THEN [w |-> w1, err |-> "none",
                       keys |-> [p \in DOMAIN f.entries |-> decrypt(w1.fernet, f.entries[p]).pt]]
                 ELSE [w |-> w1, err |-> "DecryptionError", keys |-> EmptyDict]
        ELSE LET result == [p \in DOMAIN f.entries |-> f.entries[p].pt]
                 needs_migration == DOMAIN f.entries # {}
             IN  IF needs_migration /\ DOMAIN result # {}
                 THEN LET sv == migrate(w, result)
                      IN  IF sv.err # "none"
                          THEN [w |-> sv.w, err |-> sv.err, keys |-> EmptyDict]
                          ELSE [w |-> sv.w, err |-> "none", keys |-> result]
                 ELSE [w |-> w, err |-> "none", keys |-> result]

\* KeyManager._ensure_config_dir
ensure_config_dir(w) == [w EXCEPT !.dir = TRUE]

\* (a variant whose short-key test is "<=")
mask_key_le(key) ==
    IF Len(key) <= MASK_MIN_LEN
    THEN <<"*", "*", "*">>
    ELSE SubSeq(key, 1, MASK_SHOWN) \o <<".", ".", ".">>
         \o SubSeq(key, Len(key) - MASK_SHOWN + 1, Len(key))

\* KeyManager._mask_key
mask_key(key) ==
    IF Len(key) < MASK_MIN_LEN
    THEN <<"*", "*", "*">>
    ELSE SubSeq(key, 1, MASK_SHOWN) \o <<".", ".", ".">>
         \o SubSeq(key, Len(key) - MASK_SHOWN + 1, Len(key))

\* --------------------------------------------------------------- KeyManager
\* What a call hands back: the world after it, the exception raised ("none"
\* when it returns), and the returned value in the field of its type.
\*   str      get_key's return value
\*   bool     key_exists' return value
\*   listing  list_keys' return value
\*   notfound the provider a KeyNotFoundError carries
\*   mem      the dict the call held in memory when it ended
Outcome(w, err) ==
    [w |-> w, err |-> err, str |-> <<>>, bool |-> FALSE, listing |-> EmptyDict,
     notfound |-> <<>>, mem |-> EmptyDict]

\* store_key's check of the provider name
valid_provider(provider_lower) == provider_lower \in VALID_PROVIDERS

\* (a variant that forgets the strip)
empty_key_unstripped(key) == key = <<>>

\* store_key's check of the key: "not key or not key.strip()"
empty_key(key) == key = <<>> \/ strip(key) = <<>>

\* os.environ.get(name): [set, val]
Unset == [set |-> FALSE, val |-> <<>>]
EnvValue(s) == [set |-> TRUE, val |-> s]

\* the truth value of os.environ.get(name): set and not empty
Truthy(e) == e.set /\ e.val # <<>>

\* store_key up to the dict it has loaded: [w, err, keys]
store_key_load(w, provider, key) ==
    LET provider_lower == lower(provider)
    IN  IF ~valid_provider(provider_lower)
        THEN [w |-> w, err |-> "KeyValidationError", keys |-> EmptyDict]
        ELSE IF empty_key(key)
        THEN [w |-> w, err |-> "KeyValidationError", keys |-> EmptyDict]
        ELSE load_keys(ensure_config_dir(w))

\* (a variant that reads the file again before it writes)
store_key_save_reread(w, loaded, provider, key) ==
    LET ld == load_keys(w)
        keys == Put(IF ld.err = "none" THEN ld.keys ELSE loaded, lower(provider), strip(key))
        sv == save_keys(ld.w, keys)
    IN  [w |-> sv.w, err |-> sv.err, keys |-> keys]

\* store_key from the dict it has loaded: the entry is put and the dict
\* saved: [w, err, keys]
store_key_save(w, loaded, provider, key) ==
    LET keys == Put(loaded, lower(provider), strip(key))
        sv == save_keys(w, keys)
    IN  [w |-> sv.w, err |-> sv.err, keys |-> keys]

\* KeyManager.store_key
store_key(w, env, provider, key) ==
    LET ld == store_key_load(w, provider, key)
    IN  IF ld.err # "none"
        THEN Outcome(ld.w, ld.err)
        ELSE LET sv == store_key_save(ld.w, ld.keys, provider, key)
             IN  [Outcome(sv.w, sv.err) EXCEPT !.mem = sv.keys]

\* (a variant that asks the environment before the local store)
get_key_env_first(w, env, provider) ==
    LET provider_lower == lower(provider)
        ld == load_keys(w)
    IN  IF ld.err # "none"
        THEN Outcome(ld.w, ld.err)
        ELSE IF provider_lower \in DOMAIN ENV_VAR_MAPPING
                /\ Truthy(env[ENV_VAR_MAPPING[provider_lower]])
        THEN [Outcome(ld.w, "none") EXCEPT
                 !.str = env[ENV_VAR_MAPPING[provider_lower]].val, !.mem = ld.keys]
        ELSE IF provider_lower \in DOMAIN ld.keys
        THEN [Outcome(ld.w, "none") EXCEPT
                 !.str = ld.keys[provider_lower], !.mem = ld.keys]
        ELSE [Outcome(ld.w, "KeyNotFoundError") EXCEPT
                 !.notfound = provider_lower, !.mem = ld.keys]

\* KeyManager.get_key
get_key(w, env, provider) ==
    LET provider_lower == lower(provider)
        ld == load_keys(w)
    IN  IF ld.err # "none"
        THEN Outcome(ld.w, ld.err)
        ELSE IF provider_lower \in DOMAIN ld.keys
        THEN [Outcome(ld.w, "none") EXCEPT
                 !.str = ld.keys[provider_lower], !.mem = ld.keys]
        ELSE IF provider_lower \in DOMAIN ENV_VAR_MAPPING
                /\ Truthy(env[ENV_VAR_MAPPING[provider_lower]])
        THEN [Outcome(ld.w, "none") EXCEPT
                 !.str = env[ENV_VAR_MAPPING[provider_lower]].val, !.mem = ld.keys]
        ELSE [Outcome(ld.w, "KeyNotFoundError") EXCEPT
                 !.notfound = provider_lower, !.mem = ld.keys]

\* list_keys' merge: the local keys, then the truthy environment values of
\* the mapped providers that have no local key
merged_keys(keys, env) ==
    [p \in (DOMAIN keys) \cup
           {q \in DOMAIN ENV_VAR_MAPPING : Truthy(env[ENV_VAR_MAPPING[q]])} |->
        IF p \in DOMAIN keys THEN keys[p] ELSE env[ENV_VAR_MAPPING[p]].val]

\* KeyManager.list_keys
list_keys(w, env) ==
    LET ld == load_keys(w)
    IN  IF ld.err # "none"
        THEN Outcome(ld.w, ld.err)
        ELSE LET keys == merged_keys(ld.keys, env)
             IN  [Outcome(ld.w, "none") EXCEPT
                     !.listing = [p \in DOMAIN keys |-> mask_key(keys[p])],
                     !.mem = ld.keys]

\* KeyManager.delete_key
delete_key(w, env, provider) ==
    LET ld == load_keys(w)
        provider_lower == lower(provider)
    IN  IF ld.err # "none"
        THEN Outcome(ld.w, ld.err)
        ELSE IF provider_lower \notin DOMAIN ld.keys
        THEN [Outcome(ld.w, "KeyNotFoundError") EXCEPT
                 !.notfound = provider_lower, !.mem = ld.keys]
        ELSE LET keys == Del(ld.keys, provider_lower)
                 sv == save_keys(ld.w, keys)
             IN  [Outcome(sv.w, sv.err) EXCEPT !.mem = keys]

\* key_exists' environment check: "os.environ.get(env_var_name) is not None"
env_has(e) == e.set

\* KeyManager.key_exists
key_exists(w, env, provider) ==
    LET provider_lower == lower(provider)
        ld == load_keys(w)
    IN  IF ld.err # "none"
        THEN Outcome(ld.w, ld.err)
        ELSE [Outcome(ld.w, "none") EXCEPT
                 !.bool = IF provider_lower \in DOMAIN ld.keys
                          THEN TRUE
                          ELSE IF provider_lower \in DOMAIN ENV_VAR_MAPPING
                          THEN env_has(env[ENV_VAR_MAPPING[provider_lower]])
                          ELSE FALSE,
                 !.mem = ld.keys]

\* --------------------------------------------------------------- inputs
\* provider names given to the calls: supported ones in several letter
\* cases, and one that is not supported
OpenAI_mixed == <<"O", "p", "e", "n", "A", "I">>
OLLAMA_upper == <<"O", "L", "L", "A", "M", "A">>
PaLM         == <<"P", "a", "L", "M">>

ProviderInputs == {openai, OpenAI_mixed, OLLAMA_upper, PaLM}

\* credentials: blank, of exactly 6 characters, and of 7 characters (one of
\* them a space) inside surrounding whitespace; key_5 is a short one found in
\* files and in the environment
key_blank == <<" ", "\t">>
key_5     == <<"a", "b", "c", "d", "e">>
key_6     == <<"a", "b", "c", "d", "e", "f">>
key_7     == <<"s", "k", "-", " ", "x", "y", "z">>
key_7_ws  == <<" ">> \o key_7 \o <<"\n", " ">>

KeyInputs == {key_blank, key_6, key_7_ws}

\* values of the environment variables: OPENAI_API_KEY is unset, set but
\* empty, or set to a long value; OLLAMA_HOST is unset or set to a short
\* value; ANTHROPIC_API_KEY stays unset
env_key == <<"e", "n", "v", "-", "k", "e", "y">>

EnvInputs(name) ==
    IF name = ENV_VAR_MAPPING[openai]
    THEN {Unset, EnvValue(<<>>), EnvValue(env_key)}
    ELSE IF name = ENV_VAR_MAPPING[ollama]
    THEN {Unset, EnvValue(key_5)}
    ELSE {Unset}

Environments ==
    {e \in [EnvVars -> {Unset, EnvValue(<<>>), EnvValue(env_key), EnvValue(key_5)}] :
        \A name \in EnvVars : e[name] \in EnvInputs(name)}

\* --------------------------------------------------------------- initial disks
ThisHost  == "host-a"
OtherHost == "host-b"

\* a salt file written by an earlier run, and one that was cut short
OldSalt   == [exists |-> TRUE, len |-> SALT_LEN, bytes |-> 1]
ShortSalt == [exists |-> TRUE, len |-> SALT_LEN - 1, bytes |-> 0]

\* keys.json as _save_keys writes it under the key k
EncryptedFile(k, keys) ==
    [kind |-> "record", encrypted |-> TRUE, version |-> FORMAT_VERSION,
     entries |-> [p \in DOMAIN keys |-> encrypt(k, keys[p])]]

OneKey(p, v) == Put(EmptyDict, p, v)
TwoKeys(p, v, q, u) == Put(OneKey(p, v), q, u)

\* What the configuration directory can hold when the KeyManagers are
\* constructed: nothing, a legacy plain-text file, a file of this host's
\* earlier runs, a file brought from another host, a file whose salt was
\* lost, a file that is not JSON, a file that is not a JSON object.
InitialDisks ==
    { [dir |-> FALSE, salt |-> NoSalt,    file |-> NoFile],
      [dir |-> TRUE,  salt |-> NoSalt,    file |-> NoFile],
      [dir |-> TRUE,  salt |-> ShortSalt, file |-> NoFile],
      [dir |-> TRUE,  salt |-> NoSalt,    file |-> LegacyFile(OneKey(openai, key_7))],
      [dir |-> TRUE,  salt |-> NoSalt,    file |-> LegacyFile(TwoKeys(openai, key_6, anthropic, key_5))],
      [dir |-> TRUE,  salt |-> NoSalt,    file |-> LegacyFile(EmptyDict)],
      [dir |-> TRUE,  salt |-> NoSalt,    file |-> InvalidFile],
      [dir |-> TRUE,  salt |-> NoSalt,    file |-> NonRecordFile],
      [dir |-> TRUE,  salt |-> OldSalt,
       file |-> EncryptedFile(derive_key(OldSalt.bytes, ThisHost), OneKey(ollama, key_7))],
      [dir |-> TRUE,  salt |-> OldSalt,   file |-> EncryptedFile(NoKey, EmptyDict)],
      [dir |-> TRUE,  salt |-> OldSalt,
       file |-> EncryptedFile(derive_key(OldSalt.bytes, OtherHost), OneKey(openai, key_6))],
      [dir |-> TRUE,  salt |-> NoSalt,
       file |-> EncryptedFile(derive_key(OldSalt.bytes, ThisHost), OneKey(openai, key_6))] }

\* --------------------------------------------------------------- the state machine
\* `last` when no call has been made since the environment changed; pre and
\* penv are the world and the environment the call started in
NoCall ==
    [op |-> "none", km |-> 0, provider |-> <<>>, key |-> <<>>,
     err |-> "none", str |-> <<>>, bool |-> FALSE, listing |-> EmptyDict,
     notfound |-> <<>>, mem |-> EmptyDict,
     pre |-> [dir |-> FALSE, salt |-> NoSalt, file |-> NoFile, mid |-> "none",
              fernet |-> NoKey, seq |-> 0],
     penv |-> [name \in EnvVars |-> Unset]]

\* --------------------------------------------------------------- components at rest
\* A specification is about one component. The variables of a component
\* that takes no part in it hold nothing there.
Unused == <<>>

KeyStoreUnused ==
    /\ dirExists = Unused
    /\ saltFile = Unused
    /\ keysFile = Unused
    /\ environ = Unused
    /\ machineId = Unused
    /\ fernet = Unused
    /\ saltSeq = Unused
    /\ last = Unused

CryptoUnused ==
    /\ issued = Unused
    /\ cmLast = Unused

FactoryUnused ==
    /\ default_factory = Unused
    /\ factory_lock = Unused
    /\ pc = Unused
    /\ ref = Unused
    /\ registries = Unused
    /\ flast = Unused

ConfigUnused ==
    /\ configs = Unused
    /\ adapter = Unused
    /\ clast = Unused

OllamaUnused ==
    /\ olast = Unused
    /\ sent = Unused
    /\ gen = Unused

ConstructionUnused ==
    /\ specify_config_dir = Unused
    /\ cwd = Unused
    /\ config_dir = Unused
    /\ ilast = Unused

MachineIdUnused ==
    /\ host = Unused
    /\ mlast = Unused

StepsUnused ==
    /\ tx = Unused
    /\ th = Unused

\* `cmLast` when no CryptoManager call has been made
NoCmCall ==
    [op |-> "none", cm |-> 0, plaintext |-> <<>>, token |-> PlainValue(<<>>),
     err |-> "none", str |-> <<>>]

\* no provider class, no instance
NoClass == [name |-> "none", base |-> FALSE, implemented |-> {}]
NoInstance == [cls |-> NoClass, config |-> 0, host |-> <<>>]

\* `flast` when no ProviderFactory call has been made; pre is the registry
\* the call found
NoFactoryCall ==
    [op |-> "none", factory |-> 0, name |-> <<>>, cls |-> NoClass,
     config |-> 0, err |-> "none", instance |-> NoInstance, available |-> <<>>,
     pre |-> <<>>]

\* no ProviderConfig object
NoConfig ==
    [model |-> <<>>, api_key |-> Unset, base_url |-> Unset, timeout |-> 0,
     max_retries |-> 0]

\* `clast` when no ProviderConfig call has been made; obj is the object the
\* call returned, named the variable an error message names
NoConfigCall ==
    [op |-> "none", slot |-> 0, provider |-> <<>>, model |-> <<>>, timeout |-> 0,
     max_retries |-> 0, extra |-> {}, err |-> "none", named |-> "none",
     obj |-> NoConfig]

\* `olast` when no OllamaProvider call has been made: the arguments, what
\* the client did (raised, the description of its failure, the contents it
\* answered), what was sent to the client (model, messages, requests), and
\* what the call gave (err, str, chunks)
NoOllamaCall ==
    [op |-> "none", prompt |-> <<>>, rules |-> <<>>, raised |-> FALSE,
     failure |-> <<>>, content |-> <<>>, model |-> <<>>, messages |-> <<>>,
     requests |-> <<>>, err |-> "none", str |-> <<>>, chunks |-> <<>>]

\* --------------------------------------------------------------- KeyManager: the state machine
Init ==
    /\ \E d \in InitialDisks :
          /\ dirExists = d.dir
          /\ saltFile = d.salt
          /\ keysFile = d.file
    /\ environ \in Environments
    /\ machineId = ThisHost
    /\ fernet = [m \in Managers |-> NoKey]
    /\ saltSeq = 1
    /\ last = NoCall
    /\ CryptoUnused
    /\ FactoryUnused
    /\ ConfigUnused
    /\ OllamaUnused
    /\ ConstructionUnused
    /\ MachineIdUnused
    /\ StepsUnused

\* The call op of KeyManager m ended with out.
Return(m, op, provider, key, out) ==
    /\ dirExists' = out.w.dir
    /\ saltFile' = out.w.salt
    /\ keysFile' = out.w.file
    /\ fernet' = [fernet EXCEPT ![m] = out.w.fernet]
    /\ saltSeq' = out.w.seq
    /\ last' = [op |-> op, km |-> m, provider |-> provider, key |-> key,
                err |-> out.err, str |-> out.str, bool |-> out.bool,
                listing |-> out.listing, notfound |-> out.notfound,
                mem |-> out.mem,
                pre |-> World(m), penv |-> environ]
    /\ UNCHANGED <<environ, machineId>>
    /\ UNCHANGED <<cmvars, fvars, cvars, ovars, ivars, mvars, rvars, uvars>>

StoreKey(m, provider, key) ==
    Return(m, "store", provider, key, store_key(World(m), environ, provider, key))

GetKey(m, provider) ==
    Return(m, "get", provider, <<>>, get_key(World(m), environ, provider))

ListKeys(m) ==
    Return(m, "list", <<>>, <<>>, list_keys(World(m), environ))

DeleteKey(m, provider) ==
    Return(m, "delete", provider, <<>>, delete_key(World(m), environ, provider))

KeyExists(m, provider) ==
    Return(m, "exists", provider, <<>>, key_exists(World(m), environ, provider))

\* The caller's environment changes between two calls.
SetEnv(name, e) ==
    /\ environ[name] # e
    /\ environ' = [environ EXCEPT ![name] = e]
    /\ last' = NoCall
    /\ UNCHANGED <<dirExists, saltFile, keysFile, machineId, fernet, saltSeq>>
    /\ UNCHANGED <<cmvars, fvars, cvars, ovars, ivars, mvars, rvars, uvars>>

Next ==
    \/ \E m \in Managers, p \in ProviderInputs, k \in KeyInputs : StoreKey(m, p, k)
    \/ \E m \in Managers, p \in ProviderInputs : GetKey(m, p)
    \/ \E m \in Managers : ListKeys(m)
    \/ \E m \in Managers, p \in ProviderInputs : DeleteKey(m, p)
    \/ \E m \in Managers, p \in ProviderInputs : KeyExists(m, p)
    \/ \E name \in EnvVars : \E e \in EnvInputs(name) : SetEnv(name, e)

Spec == Init /\ [][Next]_vars

\* =============================================================== properties
\* The vocabulary of the statements below.

\* s without its leading and trailing whitespace
Trim(s) ==
    LET inner == {i \in 1..Len(s) : s[i] \notin Whitespace}
    IN  IF inner = {}
        THEN <<>>
        ELSE SubSeq(s, CHOOSE i \in inner : \A j \in inner : i <= j,
                       CHOOSE i \in inner : \A j \in inner : j <= i)

\* the local record set as KeyManager m reads it in this state
Local(m) == load_keys(World(m))

\* the value the environment holds for provider p (lower case): the value of
\* its mapped variable when that is set and not empty
EnvHas(p) == p \in DOMAIN ENV_VAR_MAPPING /\ Truthy(environ[ENV_VAR_MAPPING[p]])
EnvOf(p) == environ[ENV_VAR_MAPPING[p]].val

\* the last call was op and returned
Returned(op) == last.op = op /\ last.err = "none"

\* ---------------------------------------------------------------
\* C1: after a store(p, v) that returned, get(q) for every spelling q of p,
\* on the same and on every other KeyManager of the directory, returns
\* exactly trim(v) (hence a later store(p, v2) makes it trim(v2)).
C1_StoreThenGet ==
    Returned("store") =>
        \A m \in Managers : \A q \in ProviderInputs :
            lower(q) = lower(last.provider) =>
                LET g == get_key(World(m), environ, q)
                IN  g.err = "none" /\ g.str = Trim(last.key)

\* a store of a padded credential under a mixed-case name has returned while
\* another KeyManager has not derived its key yet
C1_Witness ==
    /\ Returned("store")
    /\ last.provider = OpenAI_mixed
    /\ last.key = key_7_ws
    /\ \E m \in Managers : m # last.km /\ fernet[m] = NoKey

\* ---------------------------------------------------------------
\* C2 (as stated): get(p) returns the local value of lower(p) whenever one
\* exists, whatever the environment holds; otherwise the value of the mapped
\* environment variable; otherwise it raises KeyNotFoundError carrying p.
C2_GetAsStated ==
    (last.op = "get" /\ Local(last.km).err = "none") =>
        LET keys == Local(last.km).keys
            p == lower(last.provider)
        IN  IF p \in DOMAIN keys
            THEN last.err = "none" /\ last.str = keys[p]
            ELSE IF EnvHas(p)
            THEN last.err = "none" /\ last.str = EnvOf(p)
            ELSE last.err = "KeyNotFoundError" /\ last.notfound = last.provider

\* C2 (amended): the same, the KeyNotFoundError carrying p in lower case.
C2_Get ==
    (last.op = "get" /\ Local(last.km).err = "none") =>
        LET keys == Local(last.km).keys
            p == lower(last.provider)
        IN  IF p \in DOMAIN keys
            THEN last.err = "none" /\ last.str = keys[p]
            ELSE IF EnvHas(p)
            THEN last.err = "none" /\ last.str = EnvOf(p)
            ELSE last.err = "KeyNotFoundError" /\ last.notfound = p

\* get of a mixed-case name returned the local value although the mapped
\* environment variable holds another value
C2_Witness ==
    /\ Returned("get")
    /\ last.provider = OpenAI_mixed
    /\ EnvHas(openai)
    /\ openai \in DOMAIN Local(last.km).keys
    /\ last.str # EnvOf(openai)

\* ---------------------------------------------------------------
\* the spellings of the provider of the last call, among the inputs
Spellings(provider) == {q \in ProviderInputs : lower(q) = lower(provider)}

\* the local record set as the last call found it
Before == load_keys(last.pre)

C4_ExistsAsStated ==
    Returned("exists") =>
        LET w == World(last.km)
            p == lower(last.provider)
        IN  /\ last.bool = (get_key(w, environ, last.provider).err = "none")
            /\ p \in VALID_PROVIDERS =>
                   (last.bool = (p \in DOMAIN list_keys(w, environ).listing))

\* ---------------------------------------------------------------
\* the masked form of v: first 3 + "..." + last 3 from 6 characters on,
\* "***" below
MaskOf(v) ==
    IF Len(v) >= 6
    THEN <<v[1], v[2], v[3], ".", ".", ".", v[Len(v) - 2], v[Len(v) - 1], v[Len(v)]>>
    ELSE <<"*", "*", "*">>

\* C5: list() has one entry for exactly the providers with a local value or
\* a non-empty value in their mapped environment variable, and the entry is
\* the masked form of the local value if there is one, else of the
\* environment value.
C5_List ==
    Returned("list") =>
        LET keys == Local(last.km).keys
            shown == (DOMAIN keys) \cup {p \in VALID_PROVIDERS : EnvHas(p)}
        IN  /\ DOMAIN last.listing = shown
            /\ \A p \in shown :
                  last.listing[p] = MaskOf(IF p \in DOMAIN keys THEN keys[p] ELSE EnvOf(p))

\* a listing with a local value of exactly 6 characters that wins over the
\* environment, and a short value that comes from the environment
C5_Witness ==
    /\ Returned("list")
    /\ openai \in DOMAIN Local(last.km).keys
    /\ Local(last.km).keys[openai] = key_6
    /\ EnvHas(openai)
    /\ last.listing[openai] = <<"a", "b", "c", ".", ".", ".", "d", "e", "f">>
    /\ ollama \notin DOMAIN Local(last.km).keys
    /\ EnvHas(ollama)
    /\ last.listing[ollama] = <<"*", "*", "*">>

\* ---------------------------------------------------------------
\* position i of v cannot be read from the masked form: another character
\* there gives the same masked form
Hidden(v, i) == mask_key([v EXCEPT ![i] = "#"]) = mask_key(v)

\* C6 (as stated): every credential list() shows keeps at least one of its
\* characters hidden.
C6_ListHidesAsStated ==
    Returned("list") =>
        LET keys == merged_keys(Local(last.km).keys, environ)
        IN  \A p \in DOMAIN last.listing :
                /\ last.listing[p] = mask_key(keys[p])
                /\ \E i \in 1..Len(keys[p]) : Hidden(keys[p], i)

\* ---------------------------------------------------------------
\* the last call reached _load_keys: every get, list, delete and exists, and
\* a store whose arguments pass the validation
Loaded ==
    \/ last.op \in {"get", "list", "delete", "exists"}
    \/ /\ last.op = "store"
       /\ lower(last.provider) \in VALID_PROVIDERS
       /\ Trim(last.key) # <<>>

\* the last call found a file without the encrypted format marker
FoundLegacy == Loaded /\ last.pre.file.kind = "record" /\ ~last.pre.file.encrypted

\* what the legacy file of the last call held
Legacy == last.pre.file.entries

\* The file is in the encrypted format, none of its values is one of the
\* legacy file's plain values, and every record of the legacy file that the
\* call itself did not replace or remove decrypts to its former value.
Migrated ==
    /\ keysFile.kind = "record"
    /\ keysFile.encrypted
    /\ keysFile.version = 2
    /\ \A p \in DOMAIN keysFile.entries :
          /\ keysFile.entries[p].key # NoKey
          /\ \A q \in DOMAIN Legacy : keysFile.entries[p] # Legacy[q]
    /\ \A q \in DOMAIN Legacy :
          (last.op \in {"store", "delete"} /\ q = lower(last.provider))
          \/ /\ q \in DOMAIN keysFile.entries
             /\ keysFile.entries[q].key = fernet[last.km]
             /\ keysFile.entries[q].pt = Legacy[q].pt

\* the call used the legacy values as they stand
UsedAsIs ==
    /\ (last.op = "get" /\ lower(last.provider) \in DOMAIN Legacy) =>
           (last.err = "none" /\ last.str = Legacy[lower(last.provider)].pt)
    /\ (last.op = "exists" /\ lower(last.provider) \in DOMAIN Legacy) =>
           (last.err = "none" /\ last.bool)
    /\ last.op = "list" =>
           /\ last.err = "none"
           /\ \A q \in DOMAIN Legacy : last.listing[q] = MaskOf(Legacy[q].pt)

C8_EncryptedOnDisk ==
    (Returned("store") \/ Returned("delete") \/ (FoundLegacy /\ DOMAIN Legacy # {})) =>
        /\ keysFile.kind = "record"
        /\ keysFile.encrypted
        /\ keysFile.version = 2
        /\ DOMAIN keysFile.entries = DOMAIN last.mem
        /\ \A p \in DOMAIN keysFile.entries :
              /\ keysFile.entries[p].key # NoKey
              /\ keysFile.entries[p].key = fernet[last.km]
              /\ keysFile.entries[p].pt = last.mem[p]
              /\ keysFile.entries[p] # [key |-> NoKey, pt |-> last.mem[p]]

\* a store has returned with two credentials in the file
C8_Witness ==
    /\ Returned("store")
    /\ Cardinality(DOMAIN keysFile.entries) = 2
    /\ last.mem[lower(last.provider)] = Trim(last.key)

\* ---------------------------------------------------------------
\* C9: store(p, v) raises KeyValidationError when lower(p) is not one of
\* ollama, openai, anthropic or when v is empty after trimming, and then the
\* directory, the salt file, keys.json and the cached key are as before.
C9_StoreValidates ==
    (last.op = "store"
        /\ (lower(last.provider) \notin {ollama, openai, anthropic} \/ Trim(last.key) = <<>>)) =>
        /\ last.err = "KeyValidationError"
        /\ dirExists = last.pre.dir
        /\ saltFile = last.pre.salt
        /\ keysFile = last.pre.file
        /\ fernet[last.km] = last.pre.fernet

\* a store of a blank credential was refused on a directory that does not
\* exist, and still does not
C9_Witness ==
    /\ last.op = "store"
    /\ last.err = "KeyValidationError"
    /\ last.provider = openai
    /\ last.key = key_blank
    /\ ~dirExists

\* ---------------------------------------------------------------
\* the call op on the world w
Call(op, w, env, provider, key) ==
    CASE op = "store"  -> store_key(w, env, provider, key)
      [] op = "get"    -> get_key(w, env, provider)
      [] op = "list"   -> list_keys(w, env)
      [] op = "delete" -> delete_key(w, env, provider)
      [] op = "exists" -> key_exists(w, env, provider)

\* the file the last call found is in the encrypted format and one of its
\* values is not a token made under the key of the KeyManager
FoundUndecryptable ==
    /\ last.pre.file.kind = "record"
    /\ last.pre.file.encrypted
    /\ \E p \in DOMAIN last.pre.file.entries :
          last.pre.file.entries[p].key # get_fernet(last.pre).fernet

\* the last call ended as the same call does where there is no file: with
\* the same result, and having written what it writes there (or nothing)
AsOnEmptyStore ==
    LET out == Call(last.op, [last.pre EXCEPT !.file = NoFile], last.penv,
                    last.provider, last.key)
    IN  /\ last.err = out.err
        /\ last.str = out.str
        /\ last.bool = out.bool
        /\ last.listing = out.listing
        /\ last.notfound = out.notfound
        /\ last.mem = out.mem
        /\ dirExists = out.w.dir
        /\ saltFile = out.w.salt
        /\ keysFile = (IF out.w.file = NoFile THEN last.pre.file ELSE out.w.file)
        /\ fernet[last.km] = out.w.fernet

C28_ReprovisionAsStated ==
    (/\ last.op = "store"
     /\ Before.err = "DecryptionError"
     /\ valid_provider(lower(last.provider))
     /\ ~empty_key(last.key)) =>
        /\ last.err = "none"
        /\ LET g == get_key(World(last.km), environ, last.provider)
           IN  g.err = "none" /\ g.str = Trim(last.key)

\* ---------------------------------------------------------------
\* the local value of provider q is in `after` what it is in `before`
SameRecord(before, after, q) ==
    /\ q \in DOMAIN before <=> q \in DOMAIN after
    /\ q \in DOMAIN before => after[q] = before[q]

\* C29: where the record set could be loaded before the call, it can be
\* loaded after it by every KeyManager of the directory, and the local value
\* of every provider is what it was, but for the provider named in a store
\* or a delete; get, list and exists change no local value.
C29_OnlyOwnRecord ==
    (last.op # "none" /\ Before.err = "none") =>
        \A m \in Managers :
            /\ Local(m).err = "none"
            /\ \A q \in DOMAIN Before.keys \cup DOMAIN Local(m).keys :
                  (last.op \in {"store", "delete"} => q # lower(last.provider)) =>
                      SameRecord(Before.keys, Local(m).keys, q)

\* a store for ollama returned on a directory that held records for openai
\* and anthropic, which it still holds
C29_Witness ==
    /\ Returned("store")
    /\ lower(last.provider) = ollama
    /\ DOMAIN Before.keys = {openai, anthropic}
    /\ DOMAIN Local(last.km).keys = {openai, anthropic, ollama}
    /\ Local(last.km).keys[openai] = key_6
    /\ Local(last.km).keys[anthropic] = key_5

\* =============================================================== CryptoManager
\* CryptoManager instances used directly, all on one configuration directory
\* and one machine. Instance m keeps its key in fernet[m].

\* what the directory can hold when the instances are created
CryptoDisks == {[dir |-> d.dir, salt |-> d.salt] : d \in InitialDisks}

\* plaintexts given to encrypt: none of them empty, one all whitespace, one
\* with whitespace around it
PlaintextInputs == {key_blank, key_6, key_7_ws, env_key}

\* strings given to decrypt that encrypt did not return here: a token made on
\* another host, and a string that is no token
ForeignToken == encrypt(derive_key(OldSalt.bytes, OtherHost), key_6)
Ciphertexts == {r.token : r \in issued} \cup {ForeignToken, PlainValue(key_6)}

CryptoInit ==
    /\ \E d \in CryptoDisks :
          /\ dirExists = d.dir
          /\ saltFile = d.salt
    /\ keysFile = NoFile
    /\ environ = [name \in EnvVars |-> Unset]
    /\ machineId = ThisHost
    /\ fernet = [m \in Managers |-> NoKey]
    /\ saltSeq = 1
    /\ last = NoCall
    /\ issued = {}
    /\ cmLast = NoCmCall
    /\ FactoryUnused
    /\ ConfigUnused
    /\ OllamaUnused
    /\ ConstructionUnused
    /\ MachineIdUnused
    /\ StepsUnused

\* The call of CryptoManager m ended in the world w.
CmReturn(m, w) ==
    /\ dirExists' = w.dir
    /\ saltFile' = w.salt
    /\ fernet' = [fernet EXCEPT ![m] = w.fernet]
    /\ saltSeq' = w.seq
    /\ UNCHANGED <<keysFile, environ, machineId, last>>
    /\ UNCHANGED <<fvars, cvars, ovars, ivars, mvars, rvars, uvars>>

Encrypt(m, plaintext) ==
    LET out == cm_encrypt(World(m), plaintext)
    IN  /\ CmReturn(m, out.w)
        /\ issued' = issued \cup
              {[plaintext |-> plaintext, token |-> out.token, by |-> m]}
        /\ cmLast' = [op |-> "encrypt", cm |-> m, plaintext |-> plaintext,
                      token |-> out.token, err |-> out.err, str |-> <<>>]

Decrypt(m, ciphertext) ==
    LET out == cm_decrypt(World(m), ciphertext)
    IN  /\ CmReturn(m, out.w)
        /\ cmLast' = [op |-> "decrypt", cm |-> m, plaintext |-> <<>>,
                      token |-> ciphertext, err |-> out.err, str |-> out.str]
        /\ UNCHANGED issued

CryptoNext ==
    \/ \E m \in Managers, x \in PlaintextInputs : Encrypt(m, x)
    \/ \E m \in Managers, c \in Ciphertexts : Decrypt(m, c)

CryptoSpec == CryptoInit /\ [][CryptoNext]_vars

\* ---------------------------------------------------------------
\* C11: for every non-empty x, decrypt(encrypt(x)) = x: every token encrypt
\* has returned decrypts to its plaintext, on the instance that made it and
\* on every other instance of the same directory and machine, both in the
\* decrypt calls that were made and in one made now.
C11_RoundTrip ==
    /\ \A r \in issued :
          /\ r.plaintext # <<>>
          /\ \A m \in Managers :
                LET d == cm_decrypt(World(m), r.token)
                IN  d.err = "none" /\ d.str = r.plaintext
    /\ cmLast.op = "decrypt" =>
          \A r \in issued :
              r.token = cmLast.token =>
                  (cmLast.err = "none" /\ cmLast.str = r.plaintext)

\* an instance has decrypted, whitespace included, what another instance
\* encrypted after creating the salt of the directory
C11_Witness ==
    /\ cmLast.op = "decrypt"
    /\ cmLast.err = "none"
    /\ cmLast.str = key_7_ws
    /\ \E r \in issued : r.token = cmLast.token /\ r.by # cmLast.cm
    /\ saltSeq = 2
    /\ \A m \in Managers : fernet[m] # NoKey => fernet[m].salt = saltSeq

\* ---------------------------------------------------------------
\* the salt file holds exactly 16 bytes
Usable(file) == file.exists /\ file.len = 16

\* One call of encrypt or decrypt: it leaves a usable salt file as it is, it
\* writes a salt, of 16 bytes and never drawn before, only where there was
\* no usable one, and the key of every instance that has one is derived
\* from the salt the file holds after the call.
SaltStep ==
    /\ Usable(saltFile) => saltFile' = saltFile
    /\ saltFile' # saltFile =>
          /\ ~Usable(saltFile)
          /\ saltFile'.bytes > saltSeq
          /\ saltFile'.bytes # saltFile.bytes
    /\ Usable(saltFile')
    /\ \A m \in Managers : fernet'[m] # NoKey => fernet'[m].salt = saltFile'.bytes
    /\ \A r \in issued' : r.token.key.salt = saltFile'.bytes

\* C22: once the salt file holds exactly 16 bytes, every later encrypt and
\* decrypt of every CryptoManager of the directory uses a key derived from
\* that salt and leaves the file as it is; a salt is drawn and written only
\* when the file is absent or does not hold exactly 16 bytes.
C22_SaltReused == [][SaltStep]_vars

\* two instances hold keys derived from the salt an earlier run left, no
\* salt has been drawn, and one of them has decrypted what the other made
C22_Witness ==
    /\ saltFile = OldSalt
    /\ saltSeq = 1
    /\ \A m \in Managers : fernet[m] = derive_key(OldSalt.bytes, ThisHost)
    /\ cmLast.op = "decrypt"
    /\ cmLast.err = "none"
    /\ \E r \in issued : r.token = cmLast.token /\ r.by # cmLast.cm

\* =============================================================== ProviderConfig
\* An optional string (str | None) is None (Unset) or a string (EnvValue(s)),
\* as os.environ.get returns it.

\* Field(ge=1, le=300) of timeout, Field(ge=0, le=10) of max_retries
TIMEOUT_MIN == 1
TIMEOUT_MAX == 300
MAX_RETRIES_MIN == 0
MAX_RETRIES_MAX == 10

\* the defaults of timeout and max_retries
DEFAULT_TIMEOUT == 60
DEFAULT_MAX_RETRIES == 3

\* (a variant whose lower limit is exclusive)
timeout_ok_exclusive(timeout) == timeout > TIMEOUT_MIN /\ timeout <= TIMEOUT_MAX

\* the constraint of the field timeout
timeout_ok(timeout) == timeout >= TIMEOUT_MIN /\ timeout <= TIMEOUT_MAX

\* the constraint of the field max_retries
max_retries_ok(max_retries) ==
    max_retries >= MAX_RETRIES_MIN /\ max_retries <= MAX_RETRIES_MAX

\* validate_model: [ok, model]
validate_model(v) ==
    IF v = <<>> \/ strip(v) = <<>>
    THEN [ok |-> FALSE, model |-> <<>>]
    ELSE [ok |-> TRUE, model |-> strip(v)]

\* the fields of a ProviderConfig object
ConfigFields(model, api_key, base_url, timeout, max_retries) ==
    [model |-> model, api_key |-> api_key, base_url |-> base_url,
     timeout |-> timeout, max_retries |-> max_retries]

\* ProviderConfig(model=..., api_key=..., base_url=..., timeout=...,
\* max_retries=..., **extra): [err, fields]. extra is the set of keyword
\* names that are not fields (extra="forbid").
ProviderConfig(model, api_key, base_url, timeout, max_retries, extra) ==
    LET m == validate_model(model)
    IN  IF extra = {} /\ m.ok /\ timeout_ok(timeout) /\ max_retries_ok(max_retries)
        THEN [err |-> "none",
              fields |-> ConfigFields(m.model, api_key, base_url, timeout, max_retries)]
        ELSE [err |-> "ValidationError",
              fields |-> NoConfig]

\* DEFAULT_OLLAMA_HOST
DEFAULT_OLLAMA_HOST == <<"h", "t", "t", "p", ":", "/", "/", "l", "o", "c", "a", "l", "h", "o", "s", "t", ":", "1", "1", "4", "3", "4">>

\* _PROVIDER_ENV_VAR_MAPPING
PROVIDER_ENV_VAR_MAPPING ==
    [p \in {openai, anthropic, ollama} |->
        IF p = openai THEN "OPENAI_API_KEY"
        ELSE IF p = anthropic THEN "ANTHROPIC_API_KEY"
        ELSE "OLLAMA_HOST"]

\* os.environ.get(name, default): the value when the variable is set
environ_get(e, default) == IF e.set THEN e.val ELSE default

\* from_env's test of the credential: "api_key is None"
credential_missing(api_key) == ~api_key.set

\* ProviderConfig.from_env: [err, fields, named]; named is the variable the
\* error message names
from_env(env, provider_name, model) ==
    LET name_lower == lower(provider_name)
        failed(err, named) == [err |-> err, fields |-> NoConfig, named |-> named]
    IN  IF name_lower \notin DOMAIN PROVIDER_ENV_VAR_MAPPING
        THEN failed("ProviderConfigError", "none")
        ELSE LET env_var_name == PROVIDER_ENV_VAR_MAPPING[name_lower]
             IN  IF name_lower = ollama
                 THEN LET base_url == environ_get(env[env_var_name], DEFAULT_OLLAMA_HOST)
                          made == ProviderConfig(model, Unset, EnvValue(base_url),
                                                 DEFAULT_TIMEOUT, DEFAULT_MAX_RETRIES, {})
                      IN  [err |-> made.err, fields |-> made.fields, named |-> "none"]
                 ELSE LET api_key == env[env_var_name]
                      IN  IF credential_missing(api_key)
                          THEN failed("ProviderConfigError", env_var_name)
                          ELSE LET made == ProviderConfig(model, api_key, Unset,
                                                          DEFAULT_TIMEOUT, DEFAULT_MAX_RETRIES, {})
                               IN  [err |-> made.err, fields |-> made.fields, named |-> "none"]

\* config.timeout = v, config.model = v (frozen=False: an assignment is
\* carried out, and without validate_assignment it is not validated)
set_timeout(fields, v) == [fields EXCEPT !.timeout = v]
set_model(fields, v) == [fields EXCEPT !.model = v]

\* model names
llama2     == <<"l", "l", "a", "m", "a", "2">>
test_model == <<"t", "e", "s", "t", "-", "m", "o", "d", "e", "l">>
test_key   == <<"t", "e", "s", "t", "-", "k", "e", "y">>

\* =============================================================== ProviderFactory
\* the methods BaseProvider declares abstract
AbstractMethods == {"generate", "stream", "validate_connection"}

\* Classes given to register. base: issubclass(cls, BaseProvider);
\* implemented: the abstract methods the class defines.
OllamaProvider == [name |-> "OllamaProvider", base |-> TRUE, implemented |-> AbstractMethods]
MockProvider   == [name |-> "MockProvider", base |-> TRUE, implemented |-> AbstractMethods]
BaseProvider   == [name |-> "BaseProvider", base |-> TRUE, implemented |-> {}]
NotAProvider   == [name |-> "NotAProvider", base |-> FALSE, implemented |-> {}]

ClassInputs == {OllamaProvider, MockProvider, BaseProvider, NotAProvider}

\* A registry (_registry) is a dict in insertion order: a sequence of
\* [name, cls] with pairwise different names.
reg_has(reg, name) == \E i \in 1..Len(reg) : reg[i].name = name
reg_get(reg, name) == reg[CHOOSE i \in 1..Len(reg) : reg[i].name = name].cls
reg_put(reg, name, cls) ==
    IF reg_has(reg, name)
    THEN [i \in 1..Len(reg) |-> IF reg[i].name = name THEN [name |-> name, cls |-> cls] ELSE reg[i]]
    ELSE Append(reg, [name |-> name, cls |-> cls])
reg_del(reg, name) == SelectSeq(reg, LAMBDA e : e.name # name)

\* ProviderFactory.get_available_providers
get_available_providers(reg) == [i \in 1..Len(reg) |-> reg[i].name]

\* ProviderFactory.is_registered
is_registered(reg, name) == reg_has(reg, lower(name))

\* (a variant that compares the name as given)
register_case_sensitive(reg, name, provider_class) ==
    IF reg_has(reg, name)
    THEN [reg |-> reg, err |-> "ProviderConfigError"]
    ELSE IF ~provider_class.base
    THEN [reg |-> reg, err |-> "ProviderConfigError"]
    ELSE [reg |-> reg_put(reg, name, provider_class), err |-> "none"]

\* ProviderFactory.register: [reg, err]
register(reg, name, provider_class) ==
    LET name_lower == lower(name)
    IN  IF reg_has(reg, name_lower)
        THEN [reg |-> reg, err |-> "ProviderConfigError"]
        ELSE IF ~provider_class.base
        THEN [reg |-> reg, err |-> "ProviderConfigError"]
        ELSE [reg |-> reg_put(reg, name_lower, provider_class), err |-> "none"]

\* ProviderFactory.unregister: [reg, err]
unregister(reg, name) ==
    LET name_lower == lower(name)
    IN  IF ~reg_has(reg, name_lower)
        THEN [reg |-> reg, err |-> "ProviderConfigError"]
        ELSE [reg |-> reg_del(reg, name_lower), err |-> "none"]

\* provider_class(config): an ABC with abstract methods left raises
\* TypeError; OllamaProvider.__init__ resolves the host of its client.
instantiate(provider_class, c, cfgs) ==
    IF provider_class.implemented # AbstractMethods
    THEN [err |-> "TypeError", instance |-> NoInstance]
    ELSE [err |-> "none",
          instance |->
              [cls |-> provider_class, config |-> c,
               host |-> IF provider_class # OllamaProvider THEN <<>>
                        ELSE IF Truthy(cfgs[c].base_url) THEN cfgs[c].base_url.val
                        ELSE DEFAULT_OLLAMA_HOST]]

\* ProviderFactory.create: [reg, err, instance, available]; available is the
\* list the error message shows
create(reg, name, c, cfgs) ==
    LET name_lower == lower(name)
    IN  IF ~reg_has(reg, name_lower)
        THEN [reg |-> reg, err |-> "ProviderConfigError", instance |-> NoInstance,
              available |-> get_available_providers(reg)]
        ELSE LET made == instantiate(reg_get(reg, name_lower), c, cfgs)
             IN  [reg |-> reg, err |-> made.err, instance |-> made.instance,
                  available |-> <<>>]

\* (a variant of the check made under the lock that always constructs)
must_construct_unchecked(current) == TRUE

\* get_default_factory, the check made under the lock
must_construct(current) == current = 0

\* --------------------------------------------------------------- ProviderFactory: the state machine
\* Every thread calls get_default_factory, step by step, and between two
\* calls uses the factory the last call returned to it.

\* names given to register, unregister and create
NameInputs == {ollama, OLLAMA_upper, openai}

\* the ProviderConfig objects given to create
FactoryConfigs ==
    << ProviderConfig(llama2, Unset, Unset, DEFAULT_TIMEOUT, DEFAULT_MAX_RETRIES, {}).fields,
       ProviderConfig(test_model, EnvValue(test_key), EnvValue(key_5), 30, 3, {}).fields >>

FactoryInit ==
    /\ KeyStoreUnused
    /\ CryptoUnused
    /\ default_factory = 0
    /\ factory_lock = 0
    /\ pc = [t \in Threads |-> "idle"]
    /\ ref = [t \in Threads |-> 0]
    /\ registries = <<>>
    /\ flast = NoFactoryCall
    /\ configs = FactoryConfigs
    /\ adapter = Unused
    /\ clast = Unused
    /\ OllamaUnused
    /\ ConstructionUnused
    /\ MachineIdUnused
    /\ StepsUnused

FactoryFrame == UNCHANGED <<kmvars, cmvars, cvars, ovars, ivars, mvars, rvars, uvars>>

\* line 485: the check made without the lock
CheckUnlocked(t) ==
    /\ pc[t] = "idle"
    /\ pc' = [pc EXCEPT ![t] = IF default_factory = 0 THEN "acquire" ELSE "return"]
    /\ UNCHANGED <<default_factory, factory_lock, ref, registries, flast>>
    /\ FactoryFrame

\* line 486: with _factory_lock (enter)
Acquire(t) ==
    /\ pc[t] = "acquire"
    /\ factory_lock = 0
    /\ factory_lock' = t
    /\ pc' = [pc EXCEPT ![t] = "locked"]
    /\ UNCHANGED <<default_factory, ref, registries, flast>>
    /\ FactoryFrame

\* lines 487-488: the check made under the lock, and the construction
CheckLocked(t) ==
    /\ pc[t] = "locked"
    /\ IF must_construct(default_factory)
       THEN /\ registries' = Append(registries, <<>>)
            /\ default_factory' = Len(registries) + 1
       ELSE UNCHANGED <<registries, default_factory>>
    /\ pc' = [pc EXCEPT ![t] = "release"]
    /\ UNCHANGED <<factory_lock, ref, flast>>
    /\ FactoryFrame

\* line 486: with _factory_lock (exit)
Release(t) ==
    /\ pc[t] = "release"
    /\ factory_lock' = 0
    /\ pc' = [pc EXCEPT ![t] = "return"]
    /\ UNCHANGED <<default_factory, ref, registries, flast>>
    /\ FactoryFrame

\* line 489: return _default_factory
ReturnFactory(t) ==
    /\ pc[t] = "return"
    /\ ref' = [ref EXCEPT ![t] = default_factory]
    /\ pc' = [pc EXCEPT ![t] = "idle"]
    /\ UNCHANGED <<default_factory, factory_lock, registries, flast>>
    /\ FactoryFrame

\* Thread t may call a method of the factory it was given.
Holds(t) == pc[t] = "idle" /\ ref[t] # 0

\* The call op on the factory f ended with out.
FactoryReturn(f, op, name, cls, c, out) ==
    /\ registries' = [registries EXCEPT ![f] = out.reg]
    /\ flast' = [op |-> op, factory |-> f, name |-> name, cls |-> cls,
                 config |-> c, err |-> out.err,
                 instance |-> IF op = "create" THEN out.instance ELSE NoInstance,
                 available |-> IF op = "create" THEN out.available ELSE <<>>,
                 pre |-> registries[f]]
    /\ UNCHANGED <<default_factory, factory_lock, pc, ref>>
    /\ FactoryFrame

Register(t, name, cls) ==
    /\ Holds(t)
    /\ FactoryReturn(ref[t], "register", name, cls, 0, register(registries[ref[t]], name, cls))

Unregister(t, name) ==
    /\ Holds(t)
    /\ FactoryReturn(ref[t], "unregister", name, NoClass, 0, unregister(registries[ref[t]], name))

Create(t, name, c) ==
    /\ Holds(t)
    /\ FactoryReturn(ref[t], "create", name, NoClass, c,
                     create(registries[ref[t]], name, c, configs))

FactoryNext ==
    \/ \E t \in Threads : CheckUnlocked(t)
    \/ \E t \in Threads : Acquire(t)
    \/ \E t \in Threads : CheckLocked(t)
    \/ \E t \in Threads : Release(t)
    \/ \E t \in Threads : ReturnFactory(t)
    \/ \E t \in Threads, n \in NameInputs, cls \in ClassInputs : Register(t, n, cls)
    \/ \E t \in Threads, n \in NameInputs : Unregister(t, n)
    \/ \E t \in Threads, n \in NameInputs, c \in DOMAIN configs : Create(t, n, c)

FactorySpec == FactoryInit /\ [][FactoryNext]_vars

\* --------------------------------------------------------------- ProviderFactory: properties
\* two names are equal up to letter case
SameName(a, b) == lower(a) = lower(b)

\* the names a registry holds
Names(reg) == {reg[i].name : i \in 1..Len(reg)}

\* the registry the last call was made on, as it is now
Registry == registries[flast.factory]

\* the spellings of a name among the inputs
NameSpellings(name) == {q \in NameInputs : SameName(q, name)}

\* the classes that subclass BaseProvider and implement all of generate,
\* stream and validate_connection
Capable == {cls \in ClassInputs : cls.base /\ cls.implemented = {"generate", "stream", "validate_connection"}}

\* ---------------------------------------------------------------
\* C12: in every registry the registered names are pairwise different up to
\* letter case; a register of a name that is registered up to letter case
\* fails with ProviderConfigError and leaves the registry as it was; and after
\* an unregister that returned, a register of any spelling of that name
\* succeeds.
C12_UniqueNames ==
    /\ \A f \in DOMAIN registries :
          \A i, j \in 1..Len(registries[f]) :
              SameName(registries[f][i].name, registries[f][j].name) => i = j
    /\ (flast.op = "register" /\ \E n \in Names(flast.pre) : SameName(n, flast.name)) =>
          (flast.err = "ProviderConfigError" /\ Registry = flast.pre)
    /\ (flast.op = "unregister" /\ flast.err = "none") =>
          \A q \in NameSpellings(flast.name) : \A cls \in Capable :
              LET r == register(Registry, q, cls)
              IN  /\ r.err = "none"
                  /\ Names(r.reg) = Names(Registry) \cup {lower(q)}
                  /\ reg_get(r.reg, lower(q)) = cls

\* a register of OLLAMA was refused because ollama is registered, under
\* another class, in a registry of two names
C12_Witness ==
    /\ flast.op = "register"
    /\ flast.err = "ProviderConfigError"
    /\ flast.name = OLLAMA_upper
    /\ flast.cls = MockProvider
    /\ Len(Registry) = 2
    /\ reg_has(Registry, ollama)
    /\ reg_get(Registry, ollama) = OllamaProvider

\* ---------------------------------------------------------------
\* C13 (as stated): create(name, config) leaves the registry as it was; when
\* lower(name) is registered it returns an instance of the class registered
\* under it, holding the given config; when it is not, it raises
\* ProviderConfigError and the message lists exactly the registered names.
C13_CreateAsStated ==
    flast.op = "create" =>
        /\ Registry = flast.pre
        /\ IF \E n \in Names(Registry) : SameName(n, flast.name)
           THEN /\ flast.err = "none"
                /\ flast.instance.cls = reg_get(Registry, lower(flast.name))
                /\ flast.instance.config = flast.config
           ELSE /\ flast.err = "ProviderConfigError"
                /\ {flast.available[i] : i \in 1..Len(flast.available)} = Names(Registry)
                /\ Len(flast.available) = Cardinality(Names(Registry))

\* ---------------------------------------------------------------
\* C14 (as stated): a register of a class that does not implement all of
\* generate, stream and validate_connection fails with ProviderConfigError
\* and leaves the registry as it was; every class a registry holds
\* implements the three; and no create of a registered name fails.
C14_RegisterAsStated ==
    /\ (flast.op = "register" /\ flast.cls \notin Capable) =>
          (flast.err = "ProviderConfigError" /\ Registry = flast.pre)
    /\ \A f \in DOMAIN registries : \A i \in 1..Len(registries[f]) :
          registries[f][i].cls \in Capable
    /\ (flast.op = "create" /\ \E n \in Names(flast.pre) : SameName(n, flast.name)) =>
          flast.err = "none"

\* ---------------------------------------------------------------
\* C15: the default factory is constructed at most once, every call of
\* get_default_factory that has returned gave that one factory, and what one
\* thread registered is registered for every other thread.
C15_Singleton ==
    /\ Len(registries) <= 1
    /\ default_factory # 0 => default_factory = 1 /\ Len(registries) = 1
    /\ \A t \in Threads : ref[t] # 0 => ref[t] = default_factory
    /\ \A t, u \in Threads :
          (ref[t] # 0 /\ ref[u] # 0) =>
              \A n \in NameInputs :
                  is_registered(registries[ref[t]], n) = is_registered(registries[ref[u]], n)

\* a thread that found no factory without the lock holds the lock now, after
\* another thread has constructed the factory and registered a provider
C15_Witness ==
    \E t, u \in Threads :
        /\ pc[t] = "locked"
        /\ ref[t] = 0
        /\ default_factory # 0
        /\ ref[u] = default_factory
        /\ Len(registries[ref[u]]) > 0

\* =============================================================== ProviderConfig: the state machine
\* The program constructs ProviderConfig objects, directly and from the
\* environment, keeps each in a variable (a slot), hands one to an
\* OllamaProvider, and assigns to fields of the objects it holds.

gpt4_padded == <<" ", " ", "g", "p", "t", "-", "4", " ", " ">>

ModelInputs == {<<>>, key_blank, gpt4_padded}
TimeoutInputs == {0, 1, 300, 301}
MaxRetriesInputs == {-1, 0, 10, 11}
ExtraInputs == {{}, {"unknown_field"}}
FromEnvInputs == ProviderInputs \cup {anthropic}

ConfigInit ==
    /\ dirExists = Unused
    /\ saltFile = Unused
    /\ keysFile = Unused
    /\ environ \in Environments
    /\ machineId = Unused
    /\ fernet = Unused
    /\ saltSeq = Unused
    /\ last = Unused
    /\ CryptoUnused
    /\ FactoryUnused
    /\ configs = [s \in Slots |-> NoConfig]
    /\ adapter = 0
    /\ clast = NoConfigCall
    /\ OllamaUnused
    /\ ConstructionUnused
    /\ MachineIdUnused
    /\ StepsUnused

ConfigFrame == UNCHANGED <<kmvars, cmvars, fvars, ovars, ivars, mvars, rvars, uvars>>

\* cfg_s = ProviderConfig(model=..., timeout=..., max_retries=..., **extra)
NewConfig(s, model, timeout, max_retries, extra) ==
    LET out == ProviderConfig(model, Unset, Unset, timeout, max_retries, extra)
    IN  /\ s # adapter
        /\ configs' = IF out.err = "none" THEN [configs EXCEPT ![s] = out.fields] ELSE configs
        /\ clast' = [op |-> "new", slot |-> s, provider |-> <<>>, model |-> model,
                     timeout |-> timeout, max_retries |-> max_retries, extra |-> extra,
                     err |-> out.err, named |-> "none", obj |-> out.fields]
        /\ UNCHANGED adapter
        /\ ConfigFrame

\* cfg_s = ProviderConfig.from_env(provider, model)
FromEnv(s, provider, model) ==
    LET out == from_env(environ, provider, model)
    IN  /\ s # adapter
        /\ configs' = IF out.err = "none" THEN [configs EXCEPT ![s] = out.fields] ELSE configs
        /\ clast' = [op |-> "from_env", slot |-> s, provider |-> provider, model |-> model,
                     timeout |-> 0, max_retries |-> 0, extra |-> {},
                     err |-> out.err, named |-> out.named, obj |-> out.fields]
        /\ UNCHANGED adapter
        /\ ConfigFrame

\* cfg_s.timeout = v
SetTimeout(s, v) ==
    /\ configs[s] # NoConfig
    /\ configs' = [configs EXCEPT ![s] = set_timeout(configs[s], v)]
    /\ clast' = [op |-> "set_timeout", slot |-> s, provider |-> <<>>, model |-> <<>>,
                 timeout |-> v, max_retries |-> 0, extra |-> {},
                 err |-> "none", named |-> "none", obj |-> NoConfig]
    /\ UNCHANGED adapter
    /\ ConfigFrame

\* cfg_s.model = v
SetModel(s, v) ==
    /\ configs[s] # NoConfig
    /\ configs' = [configs EXCEPT ![s] = set_model(configs[s], v)]
    /\ clast' = [op |-> "set_model", slot |-> s, provider |-> <<>>, model |-> v,
                 timeout |-> 0, max_retries |-> 0, extra |-> {},
                 err |-> "none", named |-> "none", obj |-> NoConfig]
    /\ UNCHANGED adapter
    /\ ConfigFrame

\* OllamaProvider(cfg_s): the adapter keeps the object (self._config = config)
NewAdapter(s) ==
    /\ configs[s] # NoConfig
    /\ adapter = 0
    /\ adapter' = s
    /\ clast' = [op |-> "adapter", slot |-> s, provider |-> <<>>, model |-> <<>>,
                 timeout |-> 0, max_retries |-> 0, extra |-> {},
                 err |-> "none", named |-> "none", obj |-> NoConfig]
    /\ UNCHANGED configs
    /\ ConfigFrame

\* Construction alone, over every combination of the inputs.
ConstructNext ==
    \E s \in Slots, m \in ModelInputs, t \in TimeoutInputs, r \in MaxRetriesInputs,
       x \in ExtraInputs : NewConfig(s, m, t, r, x)

ConstructSpec == ConfigInit /\ [][ConstructNext]_vars

\* The life of the objects: constructed with the defaults or with one field
\* out of range, or from the environment, then held and assigned to.
ConfigNext ==
    \/ \E s \in Slots, m \in ModelInputs, t \in {DEFAULT_TIMEOUT, TIMEOUT_MAX + 1} :
          NewConfig(s, m, t, DEFAULT_MAX_RETRIES, {})
    \/ \E s \in Slots, p \in FromEnvInputs, m \in ModelInputs : FromEnv(s, p, m)
    \/ \E s \in Slots, v \in {TIMEOUT_MIN - 1, TIMEOUT_MAX} : SetTimeout(s, v)
    \/ \E s \in Slots : SetModel(s, <<>>)
    \/ \E s \in Slots : NewAdapter(s)

ConfigSpec == ConfigInit /\ [][ConfigNext]_vars

\* --------------------------------------------------------------- ProviderConfig: properties
\* the fields f are those of a validated config
ValidFields(f) ==
    /\ f.timeout \in 1..300
    /\ f.max_retries \in 0..10
    /\ f.model # <<>>
    /\ f.model = Trim(f.model)

\* the objects that exist
Existing == {s \in Slots : configs[s] # NoConfig}

\* ---------------------------------------------------------------
\* C16: ProviderConfig(...) succeeds exactly when timeout is in 1..300,
\* max_retries is in 0..10, the model is not empty after trimming and no
\* unknown field is given; the object then holds the trimmed model and the
\* given timeout and max_retries; otherwise the call raises ValidationError
\* and returns no object, so that only validated objects exist.
C16_Construction ==
    /\ clast.op = "new" =>
          IF /\ clast.timeout \in 1..300
             /\ clast.max_retries \in 0..10
             /\ Trim(clast.model) # <<>>
             /\ clast.extra = {}
          THEN /\ clast.err = "none"
               /\ clast.obj # NoConfig
               /\ clast.obj.model = Trim(clast.model)
               /\ clast.obj.timeout = clast.timeout
               /\ clast.obj.max_retries = clast.max_retries
               /\ configs[clast.slot] = clast.obj
          ELSE /\ clast.err = "ValidationError"
               /\ clast.obj = NoConfig
    /\ \A s \in Existing : ValidFields(configs[s])

\* a construction with timeout 1, max_retries 10 and a padded model succeeded
C16_Witness ==
    /\ clast.op = "new"
    /\ clast.err = "none"
    /\ clast.timeout = 1
    /\ clast.max_retries = 10
    /\ clast.model = gpt4_padded
    /\ configs[clast.slot].model = <<"g", "p", "t", "-", "4">>

\* ---------------------------------------------------------------
\* C17 (as stated): an assignment to a field of a config is refused, and
\* every config that exists, the one the adapter holds included, has its
\* timeout in 1..300, its max_retries in 0..10 and a non-empty trimmed model.
C17_ImmutableAsStated ==
    /\ clast.op \in {"set_timeout", "set_model"} => clast.err # "none"
    /\ \A s \in Existing : ValidFields(configs[s])
    /\ adapter # 0 => ValidFields(configs[adapter])

\* ---------------------------------------------------------------
\* the variable of a network-backed provider holds a credential
HasCredential(name) == environ[name].set /\ environ[name].val # <<>>

\* C18 (as stated): from_env(provider, model), the provider taken in lower
\* case: for openai and anthropic it returns a config only when the mapped
\* variable holds a credential, the config carrying it, and otherwise raises
\* ProviderConfigError naming the variable; for ollama it never raises
\* ProviderConfigError and the config it returns has no credential and has
\* as endpoint the value of OLLAMA_HOST, or http://localhost:11434 when that
\* is unset; for any other provider it raises ProviderConfigError.
C18_FromEnvAsStated ==
    clast.op = "from_env" =>
        LET p == lower(clast.provider)
            var == IF p = openai THEN "OPENAI_API_KEY" ELSE "ANTHROPIC_API_KEY"
        IN  IF p \in {openai, anthropic}
            THEN IF HasCredential(var)
                 THEN /\ clast.err # "ProviderConfigError"
                      /\ Trim(clast.model) # <<>> => clast.err = "none"
                      /\ clast.err = "none" => clast.obj.api_key = environ[var]
                 ELSE clast.err = "ProviderConfigError" /\ clast.named = var
            ELSE IF p = ollama
            THEN /\ clast.err # "ProviderConfigError"
                 /\ Trim(clast.model) # <<>> => clast.err = "none"
                 /\ clast.err = "none" =>
                       /\ clast.obj.api_key = Unset
                       /\ clast.obj.base_url =
                             IF environ["OLLAMA_HOST"].set
                             THEN environ["OLLAMA_HOST"]
                             ELSE EnvValue(<<"h", "t", "t", "p", ":", "/", "/", "l", "o", "c", "a", "l", "h", "o", "s", "t", ":", "1", "1", "4", "3", "4">>)
            ELSE clast.err = "ProviderConfigError"

\* =============================================================== OllamaProvider
\* keyword in error_message: kw occurs in s as a substring
contains(s, kw) ==
    \E i \in 1..(Len(s) - Len(kw) + 1) : SubSeq(s, i, i + Len(kw) - 1) = kw

\* _handle_error's connection_keywords
connection_keywords ==
    { <<"c", "o", "n", "n", "e", "c", "t", "i", "o", "n">>,
      <<"r", "e", "f", "u", "s", "e", "d">>,
      <<"t", "i", "m", "e", "o", "u", "t">>,
      <<"u", "n", "r", "e", "a", "c", "h", "a", "b", "l", "e">>,
      <<"n", "e", "t", "w", "o", "r", "k">>,
      <<"d", "n", "s">>,
      <<"h", "o", "s", "t", " ", "n", "o", "t", " ", "f", "o", "u", "n", "d">>,
      <<"n", "a", "m", "e", " ", "o", "r", " ", "s", "e", "r", "v", "i", "c", "e", " ", "n", "o", "t", " ", "k", "n", "o", "w", "n">> }

\* (a variant that compares the description as it is written)
handle_error_case_sensitive(error) ==
    IF \E keyword \in connection_keywords : contains(error, keyword)
    THEN "ProviderConnectionError"
    ELSE "ProviderResponseError"

\* OllamaProvider._handle_error, given str(error): the error it raises
handle_error(error) ==
    LET error_message == lower(error)
    IN  IF \E keyword \in connection_keywords : contains(error_message, keyword)
        THEN "ProviderConnectionError"
        ELSE "ProviderResponseError"

\* (a variant that takes blank rules for empty ones)
build_messages_blank_as_empty(prompt, rules) ==
    IF strip(rules) # <<>>
    THEN << [role |-> "system", content |-> rules], [role |-> "user", content |-> prompt] >>
    ELSE << [role |-> "user", content |-> prompt] >>

\* OllamaProvider._build_messages
build_messages(prompt, rules) ==
    IF rules # <<>>
    THEN << [role |-> "system", content |-> rules], [role |-> "user", content |-> prompt] >>
    ELSE << [role |-> "user", content |-> prompt] >>

\* What the client's chat does with a request: it raises (failure is the
\* str() of the exception), or it answers; chunks are the contents of the
\* answer (each a string or None), one for a plain chat, and a stream may
\* raise after its chunks.
ChatReply(raised, failure, chunks) ==
    [raised |-> raised, failure |-> failure, chunks |-> chunks]

\* self._client.chat(model=..., messages=..., stream=...): the request
Request(model, messages, streamed) ==
    [model |-> model, messages |-> messages, stream |-> streamed]

\* content or ""
content_or_empty(content) == IF Truthy(content) THEN content.val ELSE <<>>

\* (a variant that asks again, max_retries times, when the client fails)
generate_retrying(config, prompt, rules, reply) ==
    LET messages == build_messages(prompt, rules)
        request == Request(config.model, messages, FALSE)
    IN  [model |-> config.model, messages |-> messages,
         requests |-> IF reply.raised
                      THEN [i \in 1..(1 + config.max_retries) |-> request]
                      ELSE <<request>>,
         err |-> IF reply.raised THEN handle_error(reply.failure) ELSE "none",
         str |-> IF reply.raised THEN <<>> ELSE content_or_empty(reply.chunks[1]),
         chunks |-> <<>>]

\* OllamaProvider.generate: the requests made of the client, and [err, str]
generate(config, prompt, rules, reply) ==
    LET messages == build_messages(prompt, rules)
        request == Request(config.model, messages, FALSE)
    IN  [model |-> config.model, messages |-> messages, requests |-> <<request>>,
         err |-> IF reply.raised THEN handle_error(reply.failure) ELSE "none",
         str |-> IF reply.raised THEN <<>> ELSE content_or_empty(reply.chunks[1]),
         chunks |-> <<>>]

\* OllamaProvider.stream, consumed to its end: the requests made of the
\* client, the chunks yielded, and the error that ended it
stream(config, prompt, rules, reply) ==
    LET messages == build_messages(prompt, rules)
        request == Request(config.model, messages, TRUE)
    IN  [model |-> config.model, messages |-> messages, requests |-> <<request>>,
         err |-> IF reply.raised THEN handle_error(reply.failure) ELSE "none",
         str |-> <<>>,
         chunks |-> reply.chunks]

\* --------------------------------------------------------------- OllamaProvider: the state machine
\* descriptions of the failures of the client
Connection_refused == <<"C", "o", "n", "n", "e", "c", "t", "i", "o", "n", " ", "r", "e", "f", "u", "s", "e", "d">>
Connection_timeout == <<"C", "o", "n", "n", "e", "c", "t", "i", "o", "n", " ", "t", "i", "m", "e", "o", "u", "t">>
Host_unreachable == <<"H", "o", "s", "t", " ", "u", "n", "r", "e", "a", "c", "h", "a", "b", "l", "e">>
Network_error == <<"N", "e", "t", "w", "o", "r", "k", " ", "e", "r", "r", "o", "r">>
DNS_failure == <<"D", "N", "S", " ", "f", "a", "i", "l", "u", "r", "e">>
Host_not_found == <<"H", "o", "s", "t", " ", "n", "o", "t", " ", "f", "o", "u", "n", "d">>
Name_not_known == <<"N", "a", "m", "e", " ", "o", "r", " ", "s", "e", "r", "v", "i", "c", "e", " ", "n", "o", "t", " ", "k", "n", "o", "w", "n">>
Invalid_host_header == <<"I", "n", "v", "a", "l", "i", "d", " ", "h", "o", "s", "t", " ", "h", "e", "a", "d", "e", "r">>
Invalid_model_response == <<"I", "n", "v", "a", "l", "i", "d", " ", "m", "o", "d", "e", "l", " ", "r", "e", "s", "p", "o", "n", "s", "e">>
API_error == <<"A", "P", "I", " ", "e", "r", "r", "o", "r">>
KeyError_message == <<"'", "m", "e", "s", "s", "a", "g", "e", "'">>

Failures ==
    {Connection_refused, Connection_timeout, Host_unreachable, Network_error, DNS_failure,
     Host_not_found, Name_not_known, Invalid_host_header, Invalid_model_response,
     API_error, KeyError_message}

Hello == <<"H", "e", "l", "l", "o">>
Be_concise == <<"B", "e", " ", "c", "o", "n", "c", "i", "s", "e", ".">>

PromptInputs == {<<>>, Hello}
RulesInputs == {<<>>, <<" ">>, Be_concise}

Hel == <<"H", "e", "l">>
lo  == <<"l", "o">>

\* the replies to a plain chat: an exception, no content (None), an empty
\* content, a content
GenerateReplies ==
    {ChatReply(TRUE, d, <<>>) : d \in Failures}
        \cup {ChatReply(FALSE, <<>>, <<c>>) : c \in {Unset, EnvValue(<<>>), EnvValue(Hello)}}

\* the replies to a streamed chat: an exception at the call or after two
\* chunks, or two chunks
StreamReplies ==
    {ChatReply(TRUE, d, ch) : d \in Failures, ch \in {<<>>, <<EnvValue(Hel), EnvValue(lo)>>}}
        \cup {ChatReply(FALSE, <<>>, <<EnvValue(Hel), EnvValue(lo)>>)}

\* the configurations an OllamaProvider is given: those given to create, and
\* two with the least and the greatest timeout and max_retries
OllamaConfigs ==
    {FactoryConfigs[i] : i \in 1..Len(FactoryConfigs)} \cup
    { ProviderConfig(llama2, Unset, Unset, TIMEOUT_MIN, MAX_RETRIES_MIN, {}).fields,
      ProviderConfig(llama2, Unset, Unset, TIMEOUT_MAX, MAX_RETRIES_MAX, {}).fields }

\* The OllamaProvider holds one of these configs.
OllamaInit ==
    /\ KeyStoreUnused
    /\ CryptoUnused
    /\ FactoryUnused
    /\ \E c \in OllamaConfigs : configs = [s \in Slots |-> c]
    /\ adapter = 1
    /\ clast = Unused
    /\ olast = NoOllamaCall
    /\ sent = Unused
    /\ gen = Unused
    /\ ConstructionUnused
    /\ MachineIdUnused
    /\ StepsUnused

\* The call op ended with out.
OllamaReturn(op, prompt, rules, reply, out) ==
    /\ olast' = [op |-> op, prompt |-> prompt, rules |-> rules, raised |-> reply.raised,
                 failure |-> reply.failure, content |-> reply.chunks,
                 model |-> out.model, messages |-> out.messages,
                 requests |-> out.requests, err |-> out.err, str |-> out.str,
                 chunks |-> out.chunks]
    /\ UNCHANGED <<kmvars, cmvars, fvars, cvars, sent, gen, ivars, mvars, rvars, uvars>>

Generate(prompt, rules, reply) ==
    OllamaReturn("generate", prompt, rules, reply,
                 generate(configs[adapter], prompt, rules, reply))

Stream(prompt, rules, reply) ==
    OllamaReturn("stream", prompt, rules, reply,
                 stream(configs[adapter], prompt, rules, reply))

OllamaNext ==
    \/ \E p \in PromptInputs, r \in RulesInputs, reply \in GenerateReplies : Generate(p, r, reply)
    \/ \E p \in PromptInputs, r \in RulesInputs, reply \in StreamReplies : Stream(p, r, reply)

OllamaSpec == OllamaInit /\ [][OllamaNext]_vars

\* --------------------------------------------------------------- OllamaProvider: properties
\* the message of a role
Message(role, content) == [role |-> role, content |-> content]

\* ---------------------------------------------------------------
\* C19: the messages generate and stream send are [user(prompt)] when rules
\* is the empty string and [system(rules), user(prompt)] otherwise, rules of
\* whitespace only included; the user message is the last one and carries
\* the prompt as given.
C19_Messages ==
    olast.op \in {"generate", "stream"} =>
        /\ olast.messages =
              IF Len(olast.rules) = 0
              THEN <<Message("user", olast.prompt)>>
              ELSE <<Message("system", olast.rules), Message("user", olast.prompt)>>
        /\ olast.messages[Len(olast.messages)] = Message("user", olast.prompt)

\* a stream was called with rules of one space and sent two messages
C19_Witness ==
    /\ olast.op = "stream"
    /\ olast.rules = <<" ">>
    /\ olast.prompt = Hello
    /\ Len(olast.messages) = 2
    /\ olast.messages[1].role = "system"

\* ---------------------------------------------------------------
\* word occurs in the description, letter case aside
Mentions(description, word) ==
    \E i, j \in 1..Len(description) :
        j - i + 1 = Len(word) /\ lower(SubSeq(description, i, j)) = word

\* the connection vocabulary as stated
StatedVocabulary ==
    { <<"c", "o", "n", "n", "e", "c", "t", "i", "o", "n">>,
      <<"r", "e", "f", "u", "s", "e", "d">>,
      <<"t", "i", "m", "e", "o", "u", "t">>,
      <<"u", "n", "r", "e", "a", "c", "h", "a", "b", "l", "e">>,
      <<"n", "e", "t", "w", "o", "r", "k">>,
      <<"d", "n", "s">>,
      <<"h", "o", "s", "t">> }

\* the connection vocabulary of the code
CodeVocabulary ==
    { <<"c", "o", "n", "n", "e", "c", "t", "i", "o", "n">>,
      <<"r", "e", "f", "u", "s", "e", "d">>,
      <<"t", "i", "m", "e", "o", "u", "t">>,
      <<"u", "n", "r", "e", "a", "c", "h", "a", "b", "l", "e">>,
      <<"n", "e", "t", "w", "o", "r", "k">>,
      <<"d", "n", "s">>,
      <<"h", "o", "s", "t", " ", "n", "o", "t", " ", "f", "o", "u", "n", "d">>,
      <<"n", "a", "m", "e", " ", "o", "r", " ", "s", "e", "r", "v", "i", "c", "e", " ", "n", "o", "t", " ", "k", "n", "o", "w", "n">> }

\* a failure of the client surfaced as ProviderConnectionError when its
\* description mentions a word of the vocabulary, as ProviderResponseError
\* when it mentions none
MappedBy(vocabulary) ==
    (olast.op \in {"generate", "stream"} /\ olast.raised) =>
        olast.err = IF \E word \in vocabulary : Mentions(olast.failure, word)
                    THEN "ProviderConnectionError"
                    ELSE "ProviderResponseError"

\* C20 (as stated): every failure of the client during generate or stream
\* surfaces as ProviderConnectionError when its description mentions
\* connection, refused, timeout, unreachable, network, dns or host, and as
\* ProviderResponseError otherwise.
C20_ErrorsAsStated == MappedBy(StatedVocabulary)

\* C20 (amended): the same with the vocabulary connection, refused, timeout,
\* unreachable, network, dns, "host not found", "name or service not known".
C20_Errors == MappedBy(CodeVocabulary)

\* a stream that failed after two chunks with "DNS failure" ended in
\* ProviderConnectionError
C20_Witness ==
    /\ olast.op = "stream"
    /\ olast.raised
    /\ olast.failure = DNS_failure
    /\ Len(olast.chunks) = 2
    /\ olast.err = "ProviderConnectionError"

\* ---------------------------------------------------------------
\* C24: every call of generate makes exactly one request of the client, a
\* plain chat for the configured model, whatever max_retries is: when the
\* client answers, generate returns the content, the empty string for no
\* content; when the client fails, generate raises and has asked once.
C24_OneRequest ==
    olast.op = "generate" =>
        /\ Len(olast.requests) = 1
        /\ olast.requests[1].model = configs[adapter].model
        /\ ~olast.requests[1].stream
        /\ IF olast.raised
           THEN olast.err # "none"
           ELSE /\ olast.err = "none"
                /\ olast.str = IF olast.content[1].set THEN olast.content[1].val ELSE <<>>

\* a generate under max_retries = 10 has raised after the client refused
\* the connection
C24_Witness ==
    /\ olast.op = "generate"
    /\ configs[adapter].max_retries = 10
    /\ olast.raised
    /\ olast.failure = Connection_refused
    /\ olast.err = "ProviderConnectionError"
    /\ Len(olast.requests) = 1

\* =============================================================== OllamaProvider.stream, step by step
\* stream is an async generator: the call makes the generator and runs
\* nothing; each __anext__ of the consumer runs the body to its next yield,
\* to its end (StopAsyncIteration) or to the error it raises. `gen` is the
\* generators made so far on the provider, `sent` the requests its client has
\* received.

\* Calls of stream made on the provider.
MaxStreams == 2

\* provider.stream(prompt, rules): the generator, its body not yet started;
\* request is the place in `sent` of the request it made (0: none), reply
\* what the client does with that request, pos the number of chunks taken
\* from the response, received what the consumer was given
stream_call(prompt, rules) ==
    [state |-> "created", prompt |-> prompt, rules |-> rules, request |-> 0,
     reply |-> ChatReply(FALSE, <<>>, <<>>), pos |-> 0, received |-> <<>>,
     ended |-> FALSE, err |-> "none"]

\* (a variant that makes its request again at every step)
anext_asking_again(g, config, reply, log) ==
    LET request == Request(config.model, build_messages(g.prompt, g.rules), TRUE)
        started == IF g.state = "created"
                   THEN [g EXCEPT !.reply = reply, !.request = Len(log) + 1]
                   ELSE g
        r       == started.reply
    IN  [sent |-> Append(log, request),
         gen  |-> IF started.pos < Len(r.chunks)
                  THEN [started EXCEPT !.state = "suspended", !.pos = @ + 1,
                                       !.received = Append(@, r.chunks[started.pos + 1])]
                  ELSE IF r.raised
                  THEN [started EXCEPT !.state = "closed", !.err = handle_error(r.failure)]
                  ELSE [started EXCEPT !.state = "closed", !.ended = TRUE]]

\* __anext__ of the generator g (created or suspended at its yield), with
\* `reply` what the client does with the request and `log` the requests
\* received so far: the first step builds the messages and makes the request;
\* every step takes the next chunk of the response and yields its content, or
\* ends with the response, or raises the classified error
anext(g, config, reply, log) ==
    LET request == Request(config.model, build_messages(g.prompt, g.rules), TRUE)
        started == IF g.state = "created"
                   THEN [g EXCEPT !.reply = reply, !.request = Len(log) + 1]
                   ELSE g
        r       == started.reply
    IN  [sent |-> IF g.state = "created" THEN Append(log, request) ELSE log,
         gen  |-> IF started.pos < Len(r.chunks)
                  THEN [started EXCEPT !.state = "suspended", !.pos = @ + 1,
                                       !.received = Append(@, r.chunks[started.pos + 1])]
                  ELSE IF r.raised
                  THEN [started EXCEPT !.state = "closed", !.err = handle_error(r.failure)]
                  ELSE [started EXCEPT !.state = "closed", !.ended = TRUE]]

\* --------------------------------------------------------------- stream steps: inputs
\* the responses of the backend to a streamed chat: no chunk, one, two, one
\* without content; it ends after them or fails after them
Chunkings == {<<>>, <<EnvValue(Hel)>>, <<EnvValue(Hel), EnvValue(lo)>>, <<Unset>>}

StepFailures == {Connection_refused, Invalid_model_response}

StepReplies ==
    {ChatReply(TRUE, d, ch) : d \in StepFailures, ch \in Chunkings}
        \cup {ChatReply(FALSE, <<>>, ch) : ch \in Chunkings}

StepRules == {<<>>, Be_concise}

\* --------------------------------------------------------------- stream steps: actions
StreamInit ==
    /\ KeyStoreUnused
    /\ CryptoUnused
    /\ FactoryUnused
    /\ configs = [s \in Slots |-> FactoryConfigs[1]]
    /\ adapter = 1
    /\ clast = Unused
    /\ olast = Unused
    /\ sent = <<>>
    /\ gen = <<>>
    /\ ConstructionUnused
    /\ MachineIdUnused
    /\ StepsUnused

StreamFrame == UNCHANGED <<kmvars, cmvars, fvars, cvars, olast, ivars, mvars, rvars, uvars>>

\* a consumer calls provider.stream(Hello, rules)
StreamCall(rules) ==
    /\ Len(gen) < MaxStreams
    /\ gen' = Append(gen, stream_call(Hello, rules))
    /\ UNCHANGED sent
    /\ StreamFrame

\* the consumer of the i-th generator asks for its first chunk
StreamStart(i, reply) ==
    /\ gen[i].state = "created"
    /\ LET out == anext(gen[i], configs[adapter], reply, sent)
       IN  /\ gen' = [gen EXCEPT ![i] = out.gen]
           /\ sent' = out.sent
    /\ StreamFrame

\* the consumer of the i-th generator asks for its next chunk
StreamResume(i) ==
    /\ gen[i].state = "suspended"
    /\ LET out == anext(gen[i], configs[adapter], gen[i].reply, sent)
       IN  /\ gen' = [gen EXCEPT ![i] = out.gen]
           /\ sent' = out.sent
    /\ StreamFrame

StreamNext ==
    \/ \E r \in StepRules : StreamCall(r)
    \/ \E i \in DOMAIN gen, reply \in StepReplies : StreamStart(i, reply)
    \/ \E i \in DOMAIN gen : StreamResume(i)

StreamSpec == StreamInit /\ [][StreamNext]_vars

\* --------------------------------------------------------------- stream steps: properties
\* the generators whose body has started
Started == {i \in DOMAIN gen : gen[i].state # "created"}

\* the first n elements of the sequence s
Prefix(s, n) == [k \in 1..n |-> s[k]]

\* ---------------------------------------------------------------
\* C25: every stream whose consumption has begun has made one streamed
\* request of its own, for its own prompt and rules, and the client has
\* received no other request; its consumer has received the first chunks of
\* the response to that request, in order, one per step; the stream ends
\* where the response ends, all chunks received; when the backend fails after
\* k chunks the consumer has received those k chunks and then the error that
\* generate raises for the same failure. A stream not yet iterated has made
\* no request.
C25_Streams ==
    /\ Len(sent) = Cardinality(Started)
    /\ \A i \in DOMAIN gen :
          LET g == gen[i]
          IN  /\ g.state = "created" => g.request = 0 /\ g.received = <<>>
              /\ g.state # "created" =>
                    /\ g.request \in DOMAIN sent
                    /\ sent[g.request].stream
                    /\ sent[g.request].model = configs[adapter].model
                    /\ sent[g.request].messages =
                          IF Len(g.rules) = 0
                          THEN <<Message("user", g.prompt)>>
                          ELSE <<Message("system", g.rules), Message("user", g.prompt)>>
                    /\ \A j \in Started : j # i => gen[j].request # g.request
                    /\ Len(g.received) <= Len(g.reply.chunks)
                    /\ g.received = Prefix(g.reply.chunks, Len(g.received))
              /\ g.state = "suspended" => ~g.ended /\ g.err = "none" /\ Len(g.received) > 0
              /\ g.state = "closed" =>
                    /\ g.received = g.reply.chunks
                    /\ g.ended = ~g.reply.raised
                    /\ g.err = IF g.reply.raised
                               THEN generate(configs[adapter], g.prompt, g.rules,
                                             ChatReply(TRUE, g.reply.failure, <<>>)).err
                               ELSE "none"

\* the first stream is suspended after one chunk of two; a later stream made
\* its own request, received both chunks of its response and then the
\* connection error
C25_Witness ==
    /\ Len(gen) = 2
    /\ gen[1].state = "suspended"
    /\ gen[1].received = <<EnvValue(Hel)>>
    /\ Len(gen[1].reply.chunks) = 2
    /\ gen[2].state = "closed"
    /\ gen[2].reply.raised
    /\ gen[2].received = <<EnvValue(Hel), EnvValue(lo)>>
    /\ gen[2].err = "ProviderConnectionError"
    /\ gen[1].request = 1
    /\ gen[2].request = 2
    /\ Len(sent) = 2

\* =============================================================== KeyManager.__init__
\* A pathlib.Path: whether it is anchored at the root, and its components.
\* Path(s) parses a string: it is absolute when it starts with "/", and its
\* components are what stands between the separators, "." and empty
\* components dropped.
RECURSIVE components(_, _)
components(s, word) ==
    LET done == IF word = <<>> \/ word = <<".">> THEN <<>> ELSE <<word>>
    IN  IF s = <<>>
        THEN done
        ELSE IF Head(s) = "/"
        THEN done \o components(Tail(s), <<>>)
        ELSE components(Tail(s), Append(word, Head(s)))

Path(s) == [absolute |-> s # <<>> /\ Head(s) = "/", parts |-> components(s, <<>>)]

\* Path.resolve()'s removal of "..": it drops the component before it, and
\* nothing at the root
RECURSIVE collapse(_, _)
collapse(parts, seen) ==
    IF parts = <<>>
    THEN seen
    ELSE IF Head(parts) = <<".", ".">>
    THEN collapse(Tail(parts),
                  IF seen = <<>> THEN <<>> ELSE SubSeq(seen, 1, Len(seen) - 1))
    ELSE collapse(Tail(parts), Append(seen, Head(parts)))

\* Path.resolve() in the working directory wd: a relative path is taken
\* from wd, and ".." is removed (symbolic links are left out)
resolve(path, wd) ==
    [absolute |-> path.absolute \/ wd.absolute,
     parts |-> collapse(IF path.absolute THEN path.parts ELSE wd.parts \o path.parts,
                        <<>>)]

\* Path.is_absolute()
is_absolute(path) == path.absolute

\* path / name
joinpath(path, name) == [path EXCEPT !.parts = Append(@, name)]

CONFIG_DIR_NAME == <<".", "s", "p", "e", "c", "i", "f", "y">>
KEYS_FILE_NAME  == <<"k", "e", "y", "s", ".", "j", "s", "o", "n">>

\* Path.home()
home == [absolute |-> TRUE, parts |-> << <<"h", "o", "m", "e">>, <<"u", "s", "e", "r">> >>]

\* the config_dir argument: None, or a Path
NoArgument == [given |-> FALSE, path |-> [absolute |-> FALSE, parts |-> <<>>]]
Argument(path) == [given |-> TRUE, path |-> path]

\* no KeyManager
NotConstructed ==
    [made |-> FALSE, config_dir |-> NoArgument.path, keys_file |-> NoArgument.path]

Constructed(dir) ==
    [made |-> TRUE, config_dir |-> dir, keys_file |-> joinpath(dir, KEYS_FILE_NAME)]

\* KeyManager.__init__: [err, km]
KeyManager_init(config_dir_env, wd, arg) ==
    IF ~arg.given
    THEN IF Truthy(config_dir_env)
         THEN LET config_path == resolve(Path(config_dir_env.val), wd)
              IN  IF ~is_absolute(config_path)
                  THEN [err |-> "KeyValidationError", km |-> NotConstructed]
                  ELSE [err |-> "none", km |-> Constructed(config_path)]
         ELSE [err |-> "none", km |-> Constructed(joinpath(home, CONFIG_DIR_NAME))]
    ELSE [err |-> "none", km |-> Constructed(arg.path)]

\* --------------------------------------------------------------- KeyManager.__init__: the state machine
\* values of SPECIFY_CONFIG_DIR: "/srv/cfg", "/srv/../etc", "cfg", "../cfg"
srv_cfg    == <<"/", "s", "r", "v", "/", "c", "f", "g">>
srv_up_etc == <<"/", "s", "r", "v", "/", ".", ".", "/", "e", "t", "c">>
cfg        == <<"c", "f", "g">>
up_cfg     == <<".", ".", "/", "c", "f", "g">>

ConfigDirInputs ==
    {Unset, EnvValue(<<>>), EnvValue(srv_cfg), EnvValue(srv_up_etc), EnvValue(cfg),
     EnvValue(up_cfg)}

\* working directories: "/", "/home/user", "/home/user/work"
WorkingDirs ==
    { [absolute |-> TRUE, parts |-> <<>>],
      home,
      joinpath(home, <<"w", "o", "r", "k">>) }

\* the config_dir arguments: None, Path("/srv/cfg"), Path("cfg")
ArgumentInputs == {NoArgument, Argument(Path(srv_cfg)), Argument(Path(cfg))}

\* `ilast` when no KeyManager has been constructed
NoInitCall ==
    [op |-> "none", km |-> 0, arg |-> NoArgument, env |-> Unset,
     wd |-> home, err |-> "none"]

DirectoryInit ==
    /\ KeyStoreUnused
    /\ CryptoUnused
    /\ FactoryUnused
    /\ ConfigUnused
    /\ OllamaUnused
    /\ specify_config_dir \in ConfigDirInputs
    /\ cwd \in WorkingDirs
    /\ config_dir = [m \in Managers |-> NotConstructed]
    /\ ilast = NoInitCall
    /\ MachineIdUnused
    /\ StepsUnused

DirectoryFrame == UNCHANGED <<kmvars, cmvars, fvars, cvars, ovars, mvars, rvars, uvars>>

\* km_m = KeyManager(arg); when the constructor raises, km_m is as before
NewKeyManager(m, arg) ==
    LET out == KeyManager_init(specify_config_dir, cwd, arg)
    IN  /\ config_dir' = IF out.err = "none"
                         THEN [config_dir EXCEPT ![m] = out.km]
                         ELSE config_dir
        /\ ilast' = [op |-> "new", km |-> m, arg |-> arg, env |-> specify_config_dir,
                     wd |-> cwd, err |-> out.err]
        /\ UNCHANGED <<specify_config_dir, cwd>>
        /\ DirectoryFrame

\* os.environ["SPECIFY_CONFIG_DIR"] = v, or its removal
SetConfigDir(v) ==
    /\ specify_config_dir # v
    /\ specify_config_dir' = v
    /\ UNCHANGED <<cwd, config_dir, ilast>>
    /\ DirectoryFrame

\* os.chdir(d)
Chdir(d) ==
    /\ cwd # d
    /\ cwd' = d
    /\ UNCHANGED <<specify_config_dir, config_dir, ilast>>
    /\ DirectoryFrame

DirectoryNext ==
    \/ \E m \in Managers, arg \in ArgumentInputs : NewKeyManager(m, arg)
    \/ \E v \in ConfigDirInputs : SetConfigDir(v)
    \/ \E d \in WorkingDirs : Chdir(d)

DirectorySpec == DirectoryInit /\ [][DirectoryNext]_vars

\* --------------------------------------------------------------- KeyManager.__init__: properties
\* the string names a path from the root
FromRoot(string) == Len(string) > 0 /\ string[1] = "/"

\* the directory the string names, wherever the process stands
Named(string) == CHOOSE dir \in {resolve(Path(string), wd) : wd \in WorkingDirs} : TRUE

\* ---------------------------------------------------------------
\* C21 (as stated): a KeyManager constructed without a directory while
\* SPECIFY_CONFIG_DIR is set takes an absolute value as its configuration
\* directory, and is refused with KeyValidationError, no KeyManager being
\* constructed, when the value is relative.
C21_OverrideAsStated ==
    (ilast.op = "new" /\ ~ilast.arg.given /\ Truthy(ilast.env)) =>
        IF FromRoot(ilast.env.val)
        THEN /\ ilast.err = "none"
             /\ config_dir[ilast.km].made
             /\ config_dir[ilast.km].config_dir = Named(ilast.env.val)
        ELSE ilast.err = "KeyValidationError"

\* =============================================================== CryptoManager._get_machine_id
\* The host as _get_machine_id finds it:
\*   system    platform.system()
\*   etc, dbus /etc/machine-id and /var/lib/dbus/machine-id: absent, there
\*             but unreadable (OSError), or a file with its text
\*   ioreg     how the ioreg command ends, and the IOPlatformUUID it prints
\*             (empty: no such line, or an empty value)
\*   winreg    how the registry query ends, and the MachineGuid it gives
\*   hostname  whether socket.gethostname() returns, and what
\*   USERNAME, USER   the two environment variables
\* What a resolution gives: [err, id, warned], warned when the UserWarning
\* of the fallback was emitted.
Resolved(id, warned) == [err |-> "none", id |-> id, warned |-> warned]
Unresolved(warned) == [err |-> "MachineIdError", id |-> <<>>, warned |-> warned]

\* CryptoManager._get_fallback_machine_id: the warning comes first
get_fallback_machine_id(h) ==
    IF ~h.hostname.ok
    THEN Unresolved(TRUE)
    ELSE LET username == IF Truthy(h.USERNAME) THEN h.USERNAME.val
                         ELSE IF Truthy(h.USER) THEN h.USER.val
                         ELSE <<"u", "n", "k", "n", "o", "w", "n">>
         IN  Resolved(h.hostname.name \o <<"-">> \o username, TRUE)

\* one turn of _get_linux_machine_id's loop: the stripped text of a file
\* that exists and can be read, if that is not empty
machine_id_of(file) ==
    IF file.state = "file" /\ strip(file.text) # <<>>
    THEN EnvValue(strip(file.text))
    ELSE Unset

\* CryptoManager._get_linux_machine_id
get_linux_machine_id(h) ==
    IF machine_id_of(h.etc).set
    THEN Resolved(machine_id_of(h.etc).val, FALSE)
    ELSE IF machine_id_of(h.dbus).set
    THEN Resolved(machine_id_of(h.dbus).val, FALSE)
    ELSE Unresolved(FALSE)

\* CryptoManager._get_macos_machine_id
get_macos_machine_id(h) ==
    IF h.ioreg.outcome = "ok" /\ h.ioreg.uuid # <<>>
    THEN Resolved(h.ioreg.uuid, FALSE)
    ELSE Unresolved(FALSE)

\* CryptoManager._get_windows_machine_id
get_windows_machine_id(h) ==
    IF h.winreg.outcome = "ImportError"
    THEN get_fallback_machine_id(h)
    ELSE IF h.winreg.outcome = "ok" /\ h.winreg.guid # <<>>
    THEN Resolved(h.winreg.guid, FALSE)
    ELSE Unresolved(FALSE)

\* CryptoManager._get_machine_id
get_machine_id(h) ==
    IF h.system = "Linux" THEN get_linux_machine_id(h)
    ELSE IF h.system = "Darwin" THEN get_macos_machine_id(h)
    ELSE IF h.system = "Windows" THEN get_windows_machine_id(h)
    ELSE get_fallback_machine_id(h)

\* --------------------------------------------------------------- CryptoManager._get_machine_id: the state machine
id_text == <<"a", "1", "b", "2">>
box     == <<"b", "o", "x">>
alice   == <<"a", "l", "i", "c", "e">>

Absent == [state |-> "absent", text |-> <<>>]
Unreadable == [state |-> "unreadable", text |-> <<>>]
File(text) == [state |-> "file", text |-> text]

\* a machine-id file: absent, unreadable, blank, or an identifier and a newline
MachineIdFiles == {Absent, Unreadable, File(<<"\n">>), File(id_text \o <<"\n">>)}

IoregOutcomes ==
    { [outcome |-> "ok", uuid |-> id_text],
      [outcome |-> "ok", uuid |-> <<>>],
      [outcome |-> "TimeoutExpired", uuid |-> <<>>],
      [outcome |-> "CalledProcessError", uuid |-> <<>>],
      [outcome |-> "FileNotFoundError", uuid |-> <<>>] }

WinregOutcomes ==
    { [outcome |-> "ok", guid |-> id_text],
      [outcome |-> "ok", guid |-> <<>>],
      [outcome |-> "FileNotFoundError", guid |-> <<>>],
      [outcome |-> "OSError", guid |-> <<>>],
      [outcome |-> "ImportError", guid |-> <<>>] }

HostnameOutcomes == {[ok |-> TRUE, name |-> box], [ok |-> FALSE, name |-> <<>>]}

UserEnvInputs(name) ==
    IF name = "USERNAME" THEN {Unset, EnvValue(<<>>)} ELSE {Unset, EnvValue(alice)}

\* The hosts: on each platform the sources of the other platforms are not
\* there (no machine-id file, no ioreg command, no winreg module), except
\* that a Windows host is also taken without its winreg module.
Hosts ==
    { h \in [system : {"Linux", "Darwin", "Windows", "FreeBSD"},
             etc : MachineIdFiles, dbus : MachineIdFiles,
             ioreg : IoregOutcomes, winreg : WinregOutcomes,
             hostname : HostnameOutcomes,
             USERNAME : UserEnvInputs("USERNAME"), USER : UserEnvInputs("USER")] :
        /\ h.system # "Linux" => (h.etc = Absent /\ h.dbus = Absent)
        /\ h.system # "Darwin" => h.ioreg.outcome = "FileNotFoundError"
        /\ h.system # "Windows" => h.winreg.outcome = "ImportError" }

\* `mlast` when _get_machine_id has not been called since the host changed
NoMachineIdCall == [op |-> "none", err |-> "none", id |-> <<>>, warned |-> FALSE]

MachineIdInit ==
    /\ KeyStoreUnused
    /\ CryptoUnused
    /\ FactoryUnused
    /\ ConfigUnused
    /\ OllamaUnused
    /\ ConstructionUnused
    /\ host \in Hosts
    /\ mlast = NoMachineIdCall
    /\ StepsUnused

MachineIdFrame == UNCHANGED <<kmvars, cmvars, fvars, cvars, ovars, ivars, rvars, uvars>>

GetMachineId ==
    LET out == get_machine_id(host)
    IN  /\ mlast' = [op |-> "get", err |-> out.err, id |-> out.id, warned |-> out.warned]
        /\ UNCHANGED host
        /\ MachineIdFrame

\* USERNAME or USER is set, emptied or removed
SetUserEnv(name, v) ==
    /\ name = "USERNAME" => (host.USERNAME # v /\ host' = [host EXCEPT !.USERNAME = v])
    /\ name = "USER" => (host.USER # v /\ host' = [host EXCEPT !.USER = v])
    /\ mlast' = NoMachineIdCall
    /\ MachineIdFrame

MachineIdNext ==
    \/ GetMachineId
    \/ \E name \in {"USERNAME", "USER"} : \E v \in UserEnvInputs(name) : SetUserEnv(name, v)

MachineIdSpec == MachineIdInit /\ [][MachineIdNext]_vars

\* --------------------------------------------------------------- CryptoManager._get_machine_id: properties
\* the file gives an identifier
Gives(file) == file.state = "file" /\ Trim(file.text) # <<>>

\* the stable value of the platform can be obtained
StableValue ==
    \/ host.system = "Linux" /\ (Gives(host.etc) \/ Gives(host.dbus))
    \/ host.system = "Darwin" /\ host.ioreg.outcome = "ok" /\ Len(host.ioreg.uuid) > 0
    \/ host.system = "Windows" /\ host.winreg.outcome = "ok" /\ Len(host.winreg.guid) > 0

\* the hostname+username identifier of the host
FallbackId ==
    host.hostname.name \o <<"-">> \o
        (IF host.USERNAME.set /\ Len(host.USERNAME.val) > 0 THEN host.USERNAME.val
         ELSE IF host.USER.set /\ Len(host.USER.val) > 0 THEN host.USER.val
         ELSE <<"u", "n", "k", "n", "o", "w", "n">>)

\* ---------------------------------------------------------------
\* C23 (as stated): on every platform, when the stable value of the platform
\* cannot be obtained, _get_machine_id yields the hostname+username
\* identifier and warns; it raises MachineIdError only when neither the
\* stable value nor the host name can be obtained.
C23_FallbackAsStated ==
    mlast.op = "get" =>
        /\ (~StableValue /\ host.hostname.ok) =>
               (mlast.err = "none" /\ mlast.id = FallbackId /\ mlast.warned)
        /\ mlast.err = "MachineIdError" => (~StableValue /\ ~host.hostname.ok)

\* =============================================================== store_key of several processes
\* Each process has a KeyManager of its own on the one configuration
\* directory and calls store_key once. Nothing serialises the calls: between
\* the _load_keys of a call and its _save_keys the other processes run. `tx`
\* holds, for each process, where its call is (idle, loaded, returned), its
\* arguments, the dict it loaded (mem) and the dict it saved.
NoTx ==
    [pc |-> "idle", provider |-> <<>>, key |-> <<>>, mem |-> EmptyDict,
     saved |-> EmptyDict, err |-> "none"]

\* what the directory holds when the processes start: nothing, or the file
\* and the salt of an earlier run
RaceDisks ==
    { [dir |-> FALSE, salt |-> NoSalt, file |-> NoFile],
      [dir |-> TRUE,  salt |-> OldSalt,
       file |-> EncryptedFile(derive_key(OldSalt.bytes, ThisHost), OneKey(ollama, key_7))] }

RaceProviders == {openai, OpenAI_mixed, anthropic, PaLM}
RaceKeys == {key_7_ws, key_6}

RaceInit ==
    /\ \E d \in RaceDisks :
          /\ dirExists = d.dir
          /\ saltFile = d.salt
          /\ keysFile = d.file
    /\ environ = Unused
    /\ machineId = ThisHost
    /\ fernet = [m \in Managers |-> NoKey]
    /\ saltSeq = 1
    /\ last = Unused
    /\ CryptoUnused
    /\ FactoryUnused
    /\ ConfigUnused
    /\ OllamaUnused
    /\ ConstructionUnused
    /\ MachineIdUnused
    /\ tx = [m \in Managers |-> NoTx]
    /\ th = Unused

\* a step of process m left the world w
RaceStep(m, w) ==
    /\ dirExists' = w.dir
    /\ saltFile' = w.salt
    /\ keysFile' = w.file
    /\ fernet' = [fernet EXCEPT ![m] = w.fernet]
    /\ saltSeq' = w.seq
    /\ UNCHANGED <<environ, machineId, last>>
    /\ UNCHANGED <<cmvars, fvars, cvars, ovars, ivars, mvars, uvars>>

\* process m calls store_key(provider, key): the call runs up to the end of
\* its _load_keys, or raises
StoreLoad(m, provider, key) ==
    /\ tx[m].pc = "idle"
    /\ LET ld == store_key_load(World(m), provider, key)
       IN  /\ tx' = [tx EXCEPT ![m] = [pc |-> IF ld.err = "none" THEN "loaded" ELSE "returned",
                                       provider |-> provider, key |-> key,
                                       mem |-> ld.keys, saved |-> EmptyDict,
                                       err |-> ld.err]]
           /\ RaceStep(m, ld.w)

\* the call of process m puts its entry, saves and returns
StoreSave(m) ==
    /\ tx[m].pc = "loaded"
    /\ LET sv == store_key_save(World(m), tx[m].mem, tx[m].provider, tx[m].key)
       IN  /\ tx' = [tx EXCEPT ![m].pc = "returned", ![m].saved = sv.keys,
                               ![m].err = sv.err]
           /\ RaceStep(m, sv.w)

RaceNext ==
    \/ \E m \in Managers, p \in RaceProviders, k \in RaceKeys : StoreLoad(m, p, k)
    \/ \E m \in Managers : StoreSave(m)

RaceSpec == RaceInit /\ [][RaceNext]_vars

\* --------------------------------------------------------------- store_key of several processes: properties
\* the store_key of process m has returned without raising
Stored(m) == tx[m].pc = "returned" /\ tx[m].err = "none"

\* the credentials keys.json holds
Held == [p \in DOMAIN keysFile.entries |-> keysFile.entries[p].pt]

\* ---------------------------------------------------------------
\* C26: a store rewrites the whole file from what it loaded: the dict a call
\* saves is the dict it loaded with its own entry put, whatever was saved in
\* between, and once a call has returned the file holds exactly what one of
\* the returned calls saved. So an update can be lost: the witness is the
\* state after an interleaving in which two calls for different providers
\* have both returned without raising and the file lacks one of the entries.
C26_WholeFileRewrite ==
    /\ \A m \in Managers :
          Stored(m) =>
              /\ DOMAIN tx[m].saved = DOMAIN tx[m].mem \cup {lower(tx[m].provider)}
              /\ \A q \in DOMAIN tx[m].mem :
                    q # lower(tx[m].provider) => tx[m].saved[q] = tx[m].mem[q]
              /\ tx[m].saved[lower(tx[m].provider)] = strip(tx[m].key)
    /\ (\E m \in Managers : Stored(m)) =>
          \E m \in Managers : Stored(m) /\ Held = tx[m].saved

\* processes 1 and 2 stored openai and anthropic, both calls returned, and
\* the file has no entry for openai
C26_Witness ==
    /\ Stored(1)
    /\ Stored(2)
    /\ lower(tx[1].provider) = openai
    /\ lower(tx[2].provider) = anthropic
    /\ openai \notin DOMAIN keysFile.entries
    /\ anthropic \in DOMAIN keysFile.entries

\* =============================================================== first use of encryption, step by step
\* Several callers run CryptoManager.encrypt for the first time on a fresh
\* configuration directory; caller t uses the CryptoManager th[t].cm, so that
\* callers are threads of one instance or hold instances of their own. No
\* lock guards _get_fernet or _load_or_create_salt: a caller can be
\* overtaken between any two of its reads and writes of self._fernet and of
\* the salt file. `th` holds, for each caller, where it is in the call, the
\* salt it holds and the token it was returned.
NoToken == PlainValue(<<>>)

FirstUseInit ==
    /\ dirExists = FALSE
    /\ saltFile = NoSalt
    /\ keysFile = Unused
    /\ environ = Unused
    /\ machineId = ThisHost
    /\ fernet = [m \in Managers |-> NoKey]
    /\ saltSeq = 1
    /\ last = Unused
    /\ CryptoUnused
    /\ FactoryUnused
    /\ ConfigUnused
    /\ OllamaUnused
    /\ ConstructionUnused
    /\ MachineIdUnused
    /\ tx = Unused
    /\ th \in [Threads -> {[pc |-> "encrypt", cm |-> m, salt |-> 0, token |-> NoToken] :
                              m \in Managers}]

FirstUseFrame ==
    /\ UNCHANGED <<keysFile, environ, machineId, last>>
    /\ UNCHANGED <<cmvars, fvars, cvars, ovars, ivars, mvars, rvars>>

\* _get_fernet: "if self._fernet is None"
TestFernet(t) ==
    /\ th[t].pc = "encrypt"
    /\ th' = [th EXCEPT ![t].pc = IF fernet[th[t].cm] = NoKey THEN "salt" ELSE "use"]
    /\ UNCHANGED <<dirExists, saltFile, fernet, saltSeq>>
    /\ FirstUseFrame

\* _load_or_create_salt: the mkdir, and the read of a salt file that exists
ReadSalt(t) ==
    /\ th[t].pc = "salt"
    /\ dirExists' = TRUE
    /\ th' = IF saltFile.exists /\ saltFile.len = SALT_LEN
             THEN [th EXCEPT ![t].pc = "derive", ![t].salt = saltFile.bytes]
             ELSE [th EXCEPT ![t].pc = "create"]
    /\ UNCHANGED <<saltFile, fernet, saltSeq>>
    /\ FirstUseFrame

\* _load_or_create_salt: a new salt is drawn and written
WriteSalt(t) ==
    /\ th[t].pc = "create"
    /\ saltSeq' = saltSeq + 1
    /\ saltFile' = [exists |-> TRUE, len |-> SALT_LEN, bytes |-> saltSeq + 1]
    /\ th' = [th EXCEPT ![t].pc = "derive", ![t].salt = saltSeq + 1]
    /\ UNCHANGED <<dirExists, fernet>>
    /\ FirstUseFrame

\* _derive_key from the salt the caller holds, and "self._fernet = Fernet(key)"
SetFernet(t) ==
    /\ th[t].pc = "derive"
    /\ fernet' = [fernet EXCEPT ![th[t].cm] = derive_key(th[t].salt, machineId)]
    /\ th' = [th EXCEPT ![t].pc = "use"]
    /\ UNCHANGED <<dirExists, saltFile, saltSeq>>
    /\ FirstUseFrame

\* "return self._fernet", and encrypt's fernet.encrypt under it
UseFernet(t, plaintext) ==
    /\ th[t].pc = "use"
    /\ th' = [th EXCEPT ![t].pc = "done",
                        ![t].token = encrypt(fernet[th[t].cm], plaintext)]
    /\ UNCHANGED <<dirExists, saltFile, fernet, saltSeq>>
    /\ FirstUseFrame

FirstUseNext ==
    \/ \E t \in Threads : TestFernet(t)
    \/ \E t \in Threads : ReadSalt(t)
    \/ \E t \in Threads : WriteSalt(t)
    \/ \E t \in Threads : SetFernet(t)
    \/ \E t \in Threads, v \in {key_6, key_7} : UseFernet(t, v)

FirstUseSpec == FirstUseInit /\ [][FirstUseNext]_vars

\* --------------------------------------------------------------- first use: properties
\* a CryptoManager created now on the directory, on this machine
CreatedAfterwards ==
    [dir |-> dirExists, salt |-> saltFile, file |-> NoFile, mid |-> machineId,
     fernet |-> NoKey, seq |-> saltSeq]

\* ---------------------------------------------------------------
\* C27 (as the specification states it): once every caller of the concurrent
\* first use has returned, all instances hold the key of the salt on disk,
\* and every token returned is decrypted by a CryptoManager created
\* afterwards on the same directory and machine.
C27_SameSaltAndKey ==
    (\A t \in Threads : th[t].pc = "done") =>
        /\ \A t \in Threads :
              fernet[th[t].cm] = derive_key(saltFile.bytes, machineId)
        /\ \A t \in Threads :
              cm_decrypt(CreatedAfterwards, th[t].token).err = "none"

\* =============================================================== KeyManager where encryption can fail
\* store_key and delete_key of several KeyManagers on one directory, on a
\* machine whose identifier can or cannot be resolved, with credentials that
\* can or cannot be encoded, from disks that can or cannot be loaded.

\* a credential that holds a lone surrogate
key_bad == <<"s", "k", "-", LoneSurrogate>>

FaultKeys == {key_blank, key_6, key_bad}
FaultProviders == {openai, OLLAMA_upper, PaLM}

\* nothing, legacy files (one of them with a value that cannot be encoded),
\* a file that is not JSON, files of this host and of another host
FaultDisks ==
    { [dir |-> FALSE, salt |-> NoSalt,  file |-> NoFile],
      [dir |-> TRUE,  salt |-> NoSalt,  file |-> LegacyFile(OneKey(openai, key_7))],
      [dir |-> TRUE,  salt |-> NoSalt,  file |-> LegacyFile(TwoKeys(openai, key_6, ollama, key_bad))],
      [dir |-> TRUE,  salt |-> NoSalt,  file |-> InvalidFile],
      [dir |-> TRUE,  salt |-> OldSalt,
       file |-> EncryptedFile(derive_key(OldSalt.bytes, ThisHost), TwoKeys(openai, key_6, ollama, key_7))],
      [dir |-> TRUE,  salt |-> OldSalt,
       file |-> EncryptedFile(derive_key(OldSalt.bytes, OtherHost), OneKey(openai, key_6))] }

FaultInit ==
    /\ \E d \in FaultDisks :
          /\ dirExists = d.dir
          /\ saltFile = d.salt
          /\ keysFile = d.file
    /\ environ = [name \in EnvVars |-> Unset]
    /\ machineId \in {ThisHost, NoMachineId}
    /\ fernet = [m \in Managers |-> NoKey]
    /\ saltSeq = 1
    /\ last = NoCall
    /\ CryptoUnused
    /\ FactoryUnused
    /\ ConfigUnused
    /\ OllamaUnused
    /\ ConstructionUnused
    /\ MachineIdUnused
    /\ StepsUnused

FaultNext ==
    \/ \E m \in Managers, p \in FaultProviders, k \in FaultKeys : StoreKey(m, p, k)
    \/ \E m \in Managers, p \in FaultProviders : DeleteKey(m, p)

FaultSpec == FaultInit /\ [][FaultNext]_vars

\* --------------------------------------------------------------- failed calls: properties
\* the provider-to-credential mapping a keys.json holds
Credentials(file) == [p \in DOMAIN file.entries |-> file.entries[p].pt]

\* the last call was a store or a delete and raised
Failed == last.op \in {"store", "delete"} /\ last.err # "none"

\* ---------------------------------------------------------------
\* C30: after a store or a delete that raised (a validation error, not
\* found, a file that is not JSON, an entry that does not decrypt, an
\* encryption that failed while saving), keys.json is of the kind it was and
\* holds the provider-to-credential mapping it held before the call; it is
\* the very file it was, or the file in which the load that preceded the
\* failure has rewritten a legacy file, complete and encrypted.
C30_FailureKeepsRecords ==
    Failed =>
        /\ keysFile.kind = last.pre.file.kind
        /\ Credentials(keysFile) = Credentials(last.pre.file)
        /\ keysFile # last.pre.file =>
              /\ ~last.pre.file.encrypted
              /\ keysFile = EncryptedFile(fernet[last.km], Credentials(last.pre.file))
              /\ fernet[last.km] # NoKey

\* a store raised EncryptionError for a credential that cannot be encoded,
\* after its load had migrated the legacy file
C30_Witness ==
    /\ last.op = "store"
    /\ last.err = "EncryptionError"
    /\ last.key = key_bad
    /\ last.pre.file = LegacyFile(OneKey(openai, key_7))
    /\ keysFile.encrypted
    /\ Credentials(keysFile) = OneKey(openai, key_7)

====
